---- MODULE Spec2Model ----
(***************************************************************************)
(* Model of the Airtable data source of llana                              *)
(* (src/src/datasources/airtable.datasource.ts): the filter translator     *)
(* whereToFilter; the request-scoped operations findOne, findMany,         *)
(* findTotalRecords, createOne, updateOne and deleteOne running against a  *)
(* backend that pages records 100 at a time behind an opaque continuation  *)
(* cursor; and the operations on the base's metadata, checkConnection,     *)
(* getSchema, createTable and truncate, whose requests can fail.           *)
(* Two collaborators of the data source follow: the webhook helper         *)
(* (src/src/helpers/Webhook.ts), which reads its lists through a cache,    *)
(* and the application bootstrap, which provisions the system tables.      *)
(*                                                                         *)
(* JavaScript values are modelled as records [type, text] where text is    *)
(* the string the value has inside a template literal, so that strict      *)
(* equality (===) and truthiness keep their meaning.  Strings are TLA+     *)
(* strings; \o, Len and SubSeq act on them character by character.         *)
(***************************************************************************)
EXTENDS Integers, Sequences, FiniteSets, TLC

VARIABLES
    \* ---- filter translator, called on its own ----
    wtfInput,     \* the predicate list as the caller built it
    wtfWhere,     \* the same list object, as it is after the calls made so far
    wtfOut,       \* the expressions returned by the calls made so far
    \* ---- backend ----
    table,        \* record numbers of the queried table's records, in view order
    writes,       \* number of records the backend created so far
    stamped,      \* record numbers whose soft-delete column the backend holds a value for
    removed,      \* record numbers the backend has deleted
    \* ---- the request in progress ----
    op,           \* public operation invoked by the caller, "idle" when none
    call,         \* the options the caller passed to it
    stack,        \* call stack of findOne / findMany frames, innermost last
    pc,           \* position of the innermost frame
    where,        \* options.where (one object shared by every frame)
    fields,       \* options.fields
    data,         \* options.data of createOne / updateOne
    recordId,     \* options.id of updateOne
    total,        \* findTotalRecords: total ; afterwards findMany: total
    cursor,       \* findTotalRecords: offset ; findMany: airtableoffset
    offsetLocal,  \* findMany: the local variable offset
    tempOffet,    \* findMany: tempOffet
    lcol,         \* createOne / updateOne: index of the column being validated
    lidx,         \* createOne / updateOne: index of the linked id being validated
    log,          \* requests sent to the backend by this operation, in order
    result,       \* what the operation returned or threw, NoResult before
    \* ---- the base's metadata and the operations on it ----
    base,         \* the tables of the base as GET /meta/bases/BaseId/tables lists them
    schemaArg,    \* the schema object the caller holds and passes to createTable
    tableCreates, \* per table name, the create-table requests the backend accepted
    page,         \* truncate: the records of the listed page still to delete
    failed,       \* backend requests of this operation that failed
    schemaOut,    \* the schema getSchema returned, NoSchema before
    \* ---- webhooks (src/src/helpers/Webhook.ts) ----
    hooks,        \* the records of the webhook table
    nextHookId,   \* the id the backend gives the next webhook record
    cache,        \* the cache: a function from the keys it holds to the cached lists
    store,        \* the cache store: [shares], whether it keeps the caller's object
    harg,         \* the webhook operation in progress and its arguments
    hpc,          \* position of the webhook operation
    targets,      \* publish: webhooks.data
    hidx,         \* publish: index in targets of the webhook the loop is at
    attempts,     \* publish: the deliveries sent, in order
    hookLog,      \* publish: the webhook-log records this call created
    hresult,      \* how the webhook operation ended, "" before
    \* ---- application bootstrap (AppBootup.onApplicationBootstrap) ----
    sysTables,    \* the system tables the backend has
    seeded,       \* per seeded table, the rows bootstrap runs have inserted
    oldLogs,      \* webhook-log records older than the retention period
    bootConfig,   \* [webhooks, skipAuth]: DISABLE_WEBHOOKS is unset, skipAuth()
    bpc,          \* position of the bootstrap run
    bootRuns,     \* bootstrap runs started so far
    bootLog       \* the lookups and table creations of this run, with their outcomes

filterVars == <<wtfInput, wtfWhere, wtfOut>>
backendVars == <<table, writes, stamped, removed>>
callVars == <<op, call, stack, pc, where, fields, data, recordId, total, cursor, offsetLocal,
              tempOffet, lcol, lidx, log, result>>
metaVars == <<base, schemaArg, tableCreates>>
stepVars == <<page, failed, schemaOut>>
hookVars == <<hooks, nextHookId, cache, store, harg, hpc, targets, hidx, attempts, hookLog,
              hresult>>
bootVars == <<sysTables, seeded, oldLogs, bootConfig, bpc, bootRuns, bootLog>>
appVars == <<hookVars, bootVars>>
coreVars == <<filterVars, backendVars, callVars, metaVars, stepVars>>
vars == <<wtfInput, wtfWhere, wtfOut, table, writes, stamped, removed, op, call, stack, pc,
          where, fields, data, recordId, total, cursor, offsetLocal, tempOffet, lcol, lidx,
          log, result, base, schemaArg, tableCreates, page, failed, schemaOut,
          hooks, nextHookId, cache, store, harg, hpc, targets, hidx, attempts, hookLog,
          hresult, sysTables, seeded, oldLogs, bootConfig, bpc, bootRuns, bootLog>>

-----------------------------------------------------------------------------
(* Bounds *)

MaxWhereLen == 2      \* longest predicate list given to whereToFilter on its own
MaxPages == 2         \* the table holds up to MaxPages full pages and a short one
MaxDepth == 3         \* deepest findOne / findMany call stack followed
MaxRequests == 8      \* most backend requests followed within one operation
MaxWrites == 1        \* most records created in one behaviour
MaxFailures == 2      \* most failing backend requests followed within one operation
MaxAdminRequests == 16 \* most backend requests followed within one truncate
MaxHooks == 2         \* most webhook records the backend gives an id to
MaxTargets == 3       \* longest list of webhooks a publish is followed with
MaxBootRuns == 2      \* most bootstrap runs followed

-----------------------------------------------------------------------------
(* JavaScript values *)

Str(s) == [type |-> "string", text |-> s]
Bool(b) == [type |-> "boolean", text |-> IF b THEN "true" ELSE "false"]
Undefined == [type |-> "undefined", text |-> "undefined"]
Num(n) == [type |-> "number", text |-> ToString(n)]

\* !v is false
Truthy(v) ==
    /\ v.type # "undefined"
    /\ ~(v.type = "string" /\ v.text = "")
    /\ ~(v.type = "boolean" /\ v.text = "false")
    /\ ~(v.type = "number" /\ v.text = "0")

Range(s) == {s[i] : i \in 1..Len(s)}

\* a slice that strips nothing
SliceLast_KeepAll(s) == s

\* String.prototype.slice(0, -1)
SliceLast(s) == IF Len(s) = 0 THEN "" ELSE SubSeq(s, 1, Len(s) - 1)

Contains(s, sub) ==
    \E i \in 1..(Len(s) - Len(sub) + 1) : SubSeq(s, i, i + Len(sub) - 1) = sub

-----------------------------------------------------------------------------
(* Schemas, as getSchema builds them *)

WhereOperator ==
    {"equals", "not_equals", "gt", "gte", "lt", "lte", "like", "not_like", "search",
     "in", "not_in", "null", "not_null"}

IdColumn ==
    [field |-> "id", type |-> "STRING", primary_key |-> TRUE, foreign_key |-> FALSE]

Column(f, t, fk) ==
    [field |-> f, type |-> t, primary_key |-> FALSE, foreign_key |-> fk]

PrimaryKey(columns) ==
    LET i == CHOOSE j \in 1..Len(columns) :
                 /\ columns[j].primary_key
                 /\ \A k \in 1..(j - 1) : ~columns[k].primary_key
    IN columns[i].field

OrdersColumns ==
    <<IdColumn, Column("name", "STRING", FALSE), Column("active", "BOOLEAN", FALSE),
      Column("CustomerId", "JSON", TRUE), Column("ReferrerId", "JSON", TRUE)>>

OrdersSchema ==
    [table |-> "Orders",
     columns |-> OrdersColumns,
     primary_key |-> PrimaryKey(OrdersColumns),
     relations |-> <<[table |-> "Customers", column |-> "id",
                      org_table |-> "Orders", org_column |-> "CustomerId"],
                     [table |-> "Customers", column |-> "id",
                      org_table |-> "Orders", org_column |-> "ReferrerId"]>>]

CustomersColumns == <<IdColumn, Column("name", "STRING", FALSE)>>

CustomersSchema ==
    [table |-> "Customers",
     columns |-> CustomersColumns,
     primary_key |-> PrimaryKey(CustomersColumns),
     relations |-> <<>>]

NoSchema == [table |-> "", columns |-> <<>>, primary_key |-> "", relations |-> <<>>]

-----------------------------------------------------------------------------
(* whereToFilter *)

\* schema.columns.find(c => c.field === w.column)
ColumnSchema(schema, column) ==
    LET i == CHOOSE j \in 1..Len(schema.columns) :
                 /\ schema.columns[j].field = column
                 /\ \A k \in 1..(j - 1) : schema.columns[k].field # column
    IN schema.columns[i]

\* a rewrite that leaves every value as given
CheckboxRewrite_None(w, schema) == w

\* the predicate after the checkbox rewrite: false on a BOOLEAN column becomes ''
CheckboxRewrite(w, schema) ==
    IF ColumnSchema(schema, w.column).type = "BOOLEAN" /\ w.value = Bool(FALSE)
    THEN [w EXCEPT !.value = Str("")]
    ELSE w

\* what one pass of the switch appends to filter
FilterTerm(w) ==
    CASE w.operator = "equals" -> "{" \o w.column \o "}=\"" \o w.value.text \o "\","
      [] w.operator = "not_equals" -> "{" \o w.column \o "}!=\"" \o w.value.text \o "\","
      [] w.operator = "gt" -> "{" \o w.column \o "}>\"" \o w.value.text \o "\","
      [] w.operator = "gte" -> "{" \o w.column \o "}>=\"" \o w.value.text \o "\","
      [] w.operator = "lt" -> "{" \o w.column \o "}<\"" \o w.value.text \o "\","
      [] w.operator = "lte" -> "{" \o w.column \o "}<=\"" \o w.value.text \o "\","
      [] w.operator \in {"like", "search"} ->
            "SEARCH(\"" \o w.value.text \o "\",{" \o w.column \o "}),"
      [] w.operator = "not_like" ->
            "NOT(SEARCH(\"" \o w.value.text \o "\",{" \o w.column \o "})),"
      [] OTHER -> ""

\* filter after the for loop has handled the first n predicates
RECURSIVE FilterLoop(_, _, _)
FilterLoop(w, schema, n) ==
    IF n = 0 THEN ""
    ELSE FilterLoop(w, schema, n - 1) \o FilterTerm(CheckboxRewrite(w[n], schema))

\* the returned expression
whereToFilter(w, schema) ==
    IF Len(w) = 0 THEN ""
    ELSE LET filter == SliceLast(FilterLoop(w, schema, Len(w)))
         IN IF Len(w) > 1
            THEN (IF filter # "" THEN "AND(" \o filter \o ")" ELSE "")
            ELSE filter

\* the predicate list after the call: the loop assigns w.value in place
WhereAfterFilter(w, schema) ==
    IF Len(w) = 0 THEN w
    ELSE [i \in 1..Len(w) |-> CheckboxRewrite(w[i], schema)]

-----------------------------------------------------------------------------
(* The backend: list, point, create and update requests as createRequest sees them *)

PageSize == 100
DefaultLimit == 20

Min(a, b) == IF a < b THEN a ELSE b

\* the offset member of a list request / response: absent, a continuation cursor
\* standing after pos records, or a plain number
NoCursor == [kind |-> "none", pos |-> 0]
CursorAt(p) == [kind |-> "cursor", pos |-> p]
NumberOffset(n) == [kind |-> "number", pos |-> n]

\* records of the linked table
CustomersTable == <<1, 2>>

SchemaOf(t) == IF t = "Orders" THEN OrdersSchema ELSE CustomersSchema
ViewOf(t, orders) == IF t = "Orders" THEN orders ELSE CustomersTable
RecId(t, n) == (IF t = "Orders" THEN "rec" ELSE "cus") \o ToString(n)
FieldValue(f, n) == f \o ":" \o ToString(n)

\* [...schema.columns.map(c => c.field)].filter(f => f !== 'id')
DefaultFields(schema) ==
    LET names == [i \in 1..Len(schema.columns) |-> schema.columns[i].field]
        NotId(f) == f # "id"
    IN SelectSeq(names, NotId)

\* options.fields?.length > 0 ? options.fields : the fields of the schema
EffectiveFields(f, schema) == IF Len(f) > 0 THEN f ELSE DefaultFields(schema)

\* { id: record.id, ...record.fields } for record n of table t, the backend having
\* returned the fields named in fs
FlatRecord(t, n, fs) ==
    [k \in {"id"} \cup fs |-> IF k = "id" THEN RecId(t, n) ELSE FieldValue(k, n)]

Defined(r) == [defined |-> TRUE, rec |-> r]
UndefinedRecord == [defined |-> FALSE, rec |-> [id |-> ""]]

\* response to POST /BaseId/<table>/listRecords as createRequest returns it: ok is
\* FALSE when the backend rejects the request, as it does an offset that is not a
\* cursor it issued or a page size outside 1..100 (createRequest logs the failure
\* and returns undefined); records are the record numbers of the page; offset is
\* present while records remain
ListRecords(view, pageSize, offset) ==
    IF offset.kind = "number" \/ pageSize < 1 \/ pageSize > PageSize
    THEN [ok |-> FALSE, records |-> <<>>, offset |-> NoCursor]
    ELSE LET start == Min(offset.pos, Len(view))
             n == Min(pageSize, Len(view) - start)
         IN [ok |-> TRUE,
             records |-> SubSeq(view, start + 1, start + n),
             offset |-> IF start + n < Len(view) THEN CursorAt(start + n) ELSE NoCursor]

\* GET /BaseId/<table>/<id>: the record number, 0 when the backend answers 404
\* (createRequest logs and returns undefined)
GetRecord(t, view, id) ==
    IF \E i \in 1..Len(view) : RecId(t, view[i]) = id
    THEN view[CHOOSE i \in 1..Len(view) : RecId(t, view[i]) = id]
    ELSE 0

NoData ==
    [id |-> Undefined, CustomerId |-> [kind |-> "absent", ids |-> <<>>],
     ReferrerId |-> [kind |-> "absent", ids |-> <<>>], deletedAt |-> Undefined]

Request(method, path, t) ==
    [method |-> method, path |-> path, table |-> t, id |-> "", pageSize |-> 0,
     maxRecords |-> 0, offset |-> NoCursor, formula |-> "", fields |-> <<>>, data |-> NoData]

ListRequest(t, pageSize, maxRecords, offset, formula, fs) ==
    [Request("POST", "listRecords", t) EXCEPT
        !.pageSize = pageSize, !.maxRecords = maxRecords, !.offset = offset,
        !.formula = formula, !.fields = fs]

-----------------------------------------------------------------------------
(* Results and the call stack *)

NoMany == [limit |-> 0, offset |-> 0, total |-> 0, pagination_total |-> 0, data |-> <<>>]
NoResult ==
    [status |-> "none", message |-> "", kind |-> "none", one |-> UndefinedRecord,
     many |-> NoMany, value |-> Undefined]
One(r) == [kind |-> "one", one |-> r, many |-> NoMany, value |-> Undefined]
Many(m) == [kind |-> "many", one |-> UndefinedRecord, many |-> m, value |-> Undefined]
Value(v) == [kind |-> "value", one |-> UndefinedRecord, many |-> NoMany, value |-> v]
Ok(v) ==
    [status |-> "ok", message |-> "", kind |-> v.kind, one |-> v.one, many |-> v.many,
     value |-> v.value]
Err(msg) ==
    [status |-> "error", message |-> msg, kind |-> "none", one |-> UndefinedRecord,
     many |-> NoMany, value |-> Undefined]

\* the DeleteResponseObject { deleted: n }
DeleteResponse(n) == [type |-> "object", text |-> "{\"deleted\":" \o ToString(n) \o "}"]

Frame(fn, t, limit, offset) == [fn |-> fn, table |-> t, limit |-> limit, offset |-> offset]
Top == stack[Len(stack)]
Callers == SubSeq(stack, 1, Len(stack) - 1)

\* a findMany that hands back an empty page in place of the record
ReturnOf_EmptyPage(f, v) ==
    IF f.fn = "findMany"
    THEN Many([limit |-> f.limit, offset |-> f.offset, total |-> 0, pagination_total |-> 0,
               data |-> <<>>])
    ELSE One(IF Len(v.many.data) = 0 THEN UndefinedRecord ELSE v.many.data[1])

\* what a frame waiting on its callee returns once the callee has returned v:
\* findMany (lines 364-388) wraps the record, findOne (line 325) takes results.data[0]
ReturnOf(f, v) ==
    IF f.fn = "findMany"
    THEN Many([limit |-> f.limit, offset |-> f.offset, total |-> 1, pagination_total |-> 1,
               data |-> <<v.one>>])
    ELSE One(IF Len(v.many.data) = 0 THEN UndefinedRecord ELSE v.many.data[1])

\* the frames left and the value handed to them after v has come back through
\* every waiting findOne / findMany frame
RECURSIVE Unwind(_, _)
Unwind(frames, v) ==
    IF frames = <<>> \/ frames[Len(frames)].fn \in {"createOne", "updateOne"}
    THEN [frames |-> frames, value |-> v]
    ELSE Unwind(SubSeq(frames, 1, Len(frames) - 1), ReturnOf(frames[Len(frames)], v))

\* an error thrown anywhere is rethrown by every catch block up to the caller
Fails(msg) ==
    /\ result' = Err(msg)
    /\ stack' = <<>>
    /\ pc' = "done"
    /\ UNCHANGED <<lcol, lidx>>

\* the innermost frame returns v
Returns(v) ==
    LET u == Unwind(Callers, v) IN
    IF u.frames = <<>>
    THEN /\ result' = Ok(u.value)
         /\ stack' = <<>>
         /\ pc' = "done"
         /\ UNCHANGED <<lcol, lidx>>
    ELSE IF u.value.one.defined
    THEN /\ stack' = u.frames
         /\ pc' = "validate"
         /\ lidx' = lidx + 1
         /\ UNCHANGED <<lcol, result>>
    ELSE Fails("Linked record not found")

-----------------------------------------------------------------------------
(* The filter translator called on its own *)

FilterColumns == {"name", "active"}
FilterValues == {Str("x"), Bool(FALSE)}
FilterPredicates == [column : FilterColumns, operator : WhereOperator, value : FilterValues]

PredicateLists(n) == UNION {[1..k -> FilterPredicates] : k \in 0..n}

NoCall ==
    [where |-> <<>>, fields |-> <<>>, limit |-> 0, offset |-> 0, data |-> NoData, id |-> "",
     softDelete |-> "", table |-> ""]

\* no webhook operation in progress
NoHookCall == [op |-> "idle", table |-> "", user |-> "", id |-> 0, auth |-> FALSE]

IdleHookCall ==
    /\ harg = NoHookCall /\ hpc = "idle"
    /\ targets = <<>> /\ hidx = 1 /\ attempts = <<>> /\ hookLog = <<>> /\ hresult = ""

\* the webhook helper is not used
IdleHooks ==
    /\ hooks = {} /\ nextHookId = 1 /\ cache = {} /\ store = [shares |-> FALSE]
    /\ IdleHookCall

\* the application is not being started
IdleBoot ==
    /\ sysTables = {} /\ seeded = [auth |-> 0, roles |-> 0] /\ oldLogs = 0
    /\ bootConfig = [webhooks |-> TRUE, skipAuth |-> FALSE]
    /\ bpc = "idle" /\ bootRuns = 0 /\ bootLog = <<>>

IdleCall ==
    /\ op = "idle" /\ call = NoCall /\ stack = <<>> /\ pc = "idle"
    /\ where = <<>> /\ fields = <<>>
    /\ data = NoData
    /\ recordId = ""
    /\ total = 0 /\ cursor = NoCursor
    /\ offsetLocal = NoCursor
    /\ tempOffet = 0 /\ lcol = 0 /\ lidx = 0
    /\ log = <<>>
    /\ result = NoResult
    /\ page = <<>> /\ failed = 0 /\ schemaOut = NoSchema

InitFilter ==
    /\ wtfInput \in PredicateLists(MaxWhereLen)
    /\ wtfWhere = wtfInput
    /\ wtfOut = <<>>
    /\ table = <<>> /\ writes = 0 /\ stamped = {} /\ removed = {}
    /\ base = <<>> /\ schemaArg = OrdersSchema /\ tableCreates = <<>>
    /\ IdleCall
    /\ IdleHooks /\ IdleBoot

\* one call whereToFilter(where, schema); the caller keeps the list and may call again
CallWhereToFilter ==
    /\ Len(wtfOut) < 2
    /\ wtfOut' = Append(wtfOut, whereToFilter(wtfWhere, OrdersSchema))
    /\ wtfWhere' = WhereAfterFilter(wtfWhere, OrdersSchema)
    /\ UNCHANGED <<wtfInput, backendVars, callVars, metaVars, stepVars, appVars>>

NextFilter == CallWhereToFilter

SpecFilter == InitFilter /\ [][NextFilter]_vars

-----------------------------------------------------------------------------
(* findOne, findMany and findTotalRecords *)

\* new Date(value).toISOString()
ToISOString(value) == value \o "T00:00:00.000Z"

formatField(type, value) == IF type = "DATE" THEN ToISOString(value) ELSE value

\* an allowlist that drops nothing
formatOutput_KeepAll(fs, schema, rec) == rec

\* lines 1035-1057: the allowlist, then formatField on the keys the schema knows
formatOutput(fs, schema, rec) ==
    LET kept == IF Len(fs) > 0
                THEN {k \in DOMAIN rec : k = "id" \/ k \in Range(fs)}
                ELSE DOMAIN rec
        HasColumn(k) == \E i \in 1..Len(schema.columns) : schema.columns[i].field = k
    IN [k \in kept |-> IF HasColumn(k)
                       THEN formatField(ColumnSchema(schema, k).type, rec[k])
                       ELSE rec[k]]

\* options.where.find(w => w.column === options.schema.primary_key)?.value
PrimaryKeyValue(w, schema) ==
    IF \E i \in 1..Len(w) : w[i].column = schema.primary_key
    THEN LET i == CHOOSE j \in 1..Len(w) :
                     /\ w[j].column = schema.primary_key
                     /\ \A k \in 1..(j - 1) : w[k].column # schema.primary_key
         IN w[i].value
    ELSE Undefined

\* line 363: the predicate list is one predicate on the primary key
ShortCircuits(w, schema) == Len(w) = 1 /\ w[1].column = schema.primary_key

\* the caller invokes findMany(options)
CallFindMany(w, f, l, o) ==
    /\ op = "idle"
    /\ op' = "findMany"
    /\ call' = [NoCall EXCEPT !.where = w, !.fields = f, !.limit = l, !.offset = o]
    /\ stack' = <<Frame("findMany", "Orders", l, o)>>
    /\ pc' = "fm_entry"
    /\ where' = w
    /\ fields' = f
    /\ UNCHANGED <<data, recordId, total, cursor, offsetLocal, tempOffet, lcol, lidx, log,
                   result, backendVars, filterVars, appVars, metaVars, stepVars>>

\* the caller invokes findOne(options)
CallFindOne(w, f) ==
    /\ op = "idle"
    /\ op' = "findOne"
    /\ call' = [NoCall EXCEPT !.where = w, !.fields = f]
    /\ stack' = <<Frame("findOne", "Orders", 0, 0)>>
    /\ pc' = "fo_entry"
    /\ where' = w
    /\ fields' = f
    /\ UNCHANGED <<data, recordId, total, cursor, offsetLocal, tempOffet, lcol, lidx, log,
                   result, backendVars, filterVars, appVars, metaVars, stepVars>>

\* findMany, lines 361-391: either hand over to findOne or enter findTotalRecords,
\* whose first statement runs whereToFilter on options.where
FindManyEntry ==
    /\ pc = "fm_entry"
    /\ IF ShortCircuits(where, SchemaOf(Top.table))
       THEN /\ Len(stack) < MaxDepth
            /\ stack' = Append(stack, Frame("findOne", Top.table, 0, 0))
            /\ pc' = "fo_entry"
            /\ UNCHANGED <<where, total, cursor>>
       ELSE /\ pc' = "ftr_loop"
            /\ where' = WhereAfterFilter(where, SchemaOf(Top.table))
            /\ total' = 0
            /\ cursor' = NoCursor
            /\ UNCHANGED stack
    /\ UNCHANGED <<op, call, fields, data, recordId, offsetLocal, tempOffet, lcol, lidx, log,
                   result, backendVars, filterVars, appVars, metaVars, stepVars>>

\* line 576: total = +result.records.length
FullPageTotal(t, n) == n

\* findMany lines 411-432 once the total is known: default limit, local offset,
\* and the branch taken on the offset
AfterCount ==
    /\ stack' = [stack EXCEPT ![Len(stack)].limit = IF @ = 0 THEN DefaultLimit ELSE @]
    /\ offsetLocal' = IF Top.offset # 0 THEN NumberOffset(Top.offset) ELSE NoCursor
    /\ tempOffet' = 0
    /\ pc' = IF Top.offset = 0 THEN "fm_fetch"
             ELSE IF Top.offset > PageSize THEN "fm_advance"
             ELSE "fm_position"

\* one pass of the while loop of findTotalRecords (lines 549-578): one list request
FindTotalRecordsStep ==
    /\ pc = "ftr_loop"
    /\ Len(log) < MaxRequests
    /\ LET schema == SchemaOf(Top.table)
           formula == whereToFilter(where, schema)
           resp == ListRecords(ViewOf(Top.table, table), PageSize, cursor)
           n == Len(resp.records)
       IN /\ log' = Append(log, ListRequest(Top.table, PageSize, 0, cursor, formula, <<>>))
          /\ IF ~resp.ok
             THEN /\ Fails("TypeError: Cannot read properties of undefined")
                  /\ UNCHANGED <<total, cursor, offsetLocal, tempOffet>>
             ELSE IF n = 0
             THEN /\ AfterCount
                  /\ cursor' = NoCursor
                  /\ UNCHANGED <<total, result, lcol, lidx>>
             ELSE IF n < PageSize
             THEN /\ total' = total + n
                  /\ AfterCount
                  /\ cursor' = NoCursor
                  /\ UNCHANGED <<result, lcol, lidx>>
             ELSE /\ total' = FullPageTotal(total, n)
                  /\ cursor' = resp.offset
                  /\ UNCHANGED <<stack, pc, offsetLocal, tempOffet, result, lcol, lidx>>
    /\ UNCHANGED <<op, call, where, fields, data, recordId, backendVars, filterVars, appVars, metaVars,
                   stepVars>>

\* one pass of the while loop of lines 436-459: a 100-record page that moves the cursor
FindManyAdvance ==
    /\ pc = "fm_advance"
    /\ Len(log) < MaxRequests
    /\ LET schema == SchemaOf(Top.table)
           formula == whereToFilter(where, schema)
           fs == EffectiveFields(fields, schema)
           resp == ListRecords(ViewOf(Top.table, table), PageSize, cursor)
       IN /\ log' = Append(log, ListRequest(Top.table, PageSize, 0, cursor, formula, fs))
          /\ IF ~resp.ok
             THEN /\ Fails("TypeError: Cannot read properties of undefined")
                  /\ UNCHANGED <<cursor, tempOffet>>
             ELSE /\ tempOffet' = tempOffet + PageSize
                  /\ cursor' = resp.offset
                  /\ pc' = IF tempOffet + PageSize < Top.offset THEN "fm_advance" ELSE "fm_fetch"
                  /\ UNCHANGED <<stack, result, lcol, lidx>>
    /\ UNCHANGED <<op, call, where, fields, data, recordId, total, offsetLocal, backendVars,
                   filterVars, appVars, metaVars, stepVars>>

\* lines 461-472: one page of options.offset records, whose cursor becomes offset
FindManyPosition ==
    /\ pc = "fm_position"
    /\ Len(log) < MaxRequests
    /\ LET schema == SchemaOf(Top.table)
           formula == whereToFilter(where, schema)
           fs == EffectiveFields(fields, schema)
           resp == ListRecords(ViewOf(Top.table, table), Top.offset, NoCursor)
       IN /\ log' = Append(log, ListRequest(Top.table, Top.offset, 0, NoCursor, formula, fs))
          /\ IF ~resp.ok
             THEN /\ Fails("TypeError: Cannot read properties of undefined")
                  /\ UNCHANGED offsetLocal
             ELSE /\ offsetLocal' = resp.offset
                  /\ pc' = "fm_fetch"
                  /\ UNCHANGED <<stack, result, lcol, lidx>>
    /\ UNCHANGED <<op, call, where, fields, data, recordId, total, cursor, tempOffet,
                   backendVars, filterVars, appVars, metaVars, stepVars>>

\* lines 476-521: the fetch of the page asked for, and the response object
FindManyFetch ==
    /\ pc = "fm_fetch"
    /\ Len(log) < MaxRequests
    /\ LET schema == SchemaOf(Top.table)
           formula == whereToFilter(where, schema)
           fs == EffectiveFields(fields, schema)
           size == IF Top.limit > PageSize THEN PageSize ELSE Top.limit
           resp == ListRecords(ViewOf(Top.table, table), size, offsetLocal)
           results == [i \in 1..Len(resp.records) |->
                          Defined(FlatRecord(Top.table, resp.records[i], Range(fs)))]
       IN /\ log' = Append(log, ListRequest(Top.table, size, size, offsetLocal, formula, fs))
          /\ IF ~resp.ok
             THEN Fails("TypeError: Cannot read properties of undefined")
             ELSE Returns(Many([limit |-> Top.limit, offset |-> Top.offset, total |-> total,
                                pagination_total |-> Len(results), data |-> results]))
    /\ UNCHANGED <<op, call, where, fields, data, recordId, total, cursor, offsetLocal,
                   tempOffet, backendVars, filterVars, appVars, metaVars, stepVars>>

\* a findOne that never hands over to findMany
Delegates_Never(w, schema) == FALSE

\* line 312: if (!id)
Delegates(w, schema) == ~Truthy(PrimaryKeyValue(w, schema))

\* findOne, lines 305-326: without a usable id it calls findMany with limit 1
FindOneEntry ==
    /\ pc = "fo_entry"
    /\ IF Delegates(where, SchemaOf(Top.table))
       THEN /\ Len(stack) < MaxDepth
            /\ stack' = Append(stack, Frame("findMany", Top.table, 1, 0))
            /\ fields' = EffectiveFields(fields, SchemaOf(Top.table))
            /\ pc' = "fm_entry"
       ELSE /\ pc' = "fo_fetch"
            /\ UNCHANGED <<stack, fields>>
    /\ UNCHANGED <<op, call, where, data, recordId, total, cursor, offsetLocal, tempOffet,
                   lcol, lidx, log, result, backendVars, filterVars, appVars, metaVars, stepVars>>

\* findOne, lines 328-344: the point fetch
FindOneFetch ==
    /\ pc = "fo_fetch"
    /\ Len(log) < MaxRequests
    /\ LET schema == SchemaOf(Top.table)
           id == PrimaryKeyValue(where, schema).text
           n == GetRecord(Top.table, ViewOf(Top.table, table), id)
       IN /\ log' = Append(log, [Request("GET", "record", Top.table) EXCEPT !.id = id])
          /\ IF n = 0
             THEN Fails("TypeError: Cannot read properties of undefined")
             ELSE Returns(One(Defined(formatOutput(fields, schema,
                                 FlatRecord(Top.table, n, Range(DefaultFields(schema)))))))
    /\ UNCHANGED <<op, call, where, fields, data, recordId, total, cursor, offsetLocal,
                   tempOffet, backendVars, filterVars, appVars, metaVars, stepVars>>

-----------------------------------------------------------------------------
(* createOne and updateOne *)

Absent == [kind |-> "absent", ids |-> <<>>]
Scalar(id) == [kind |-> "scalar", ids |-> <<id>>]
Array(ids) == [kind |-> "array", ids |-> ids]

\* if (options.data[col.field]) for a link value
LinkTruthy(l) == l.kind = "array" \/ (l.kind = "scalar" /\ l.ids[1] # "")

\* the next linked id the loops of lines 232-257 come to, from column c and index i
\* on; col is 0 when the loops are over
RECURSIVE NextLink(_, _, _, _)
NextLink(d, schema, c, i) ==
    IF c > Len(schema.columns) THEN [col |-> 0, idx |-> 0]
    ELSE IF /\ schema.columns[c].foreign_key
            /\ LinkTruthy(d[schema.columns[c].field])
            /\ i <= Len(d[schema.columns[c].field].ids)
    THEN [col |-> c, idx |-> i]
    ELSE NextLink(d, schema, c + 1, 1)

\* options.schema.relations.find(r => r.org_column === col.field)
LinkedTable(schema, field) ==
    LET i == CHOOSE j \in 1..Len(schema.relations) :
                 /\ schema.relations[j].org_column = field
                 /\ \A k \in 1..(j - 1) : schema.relations[k].org_column # field
    IN schema.relations[i]

\* the caller invokes createOne(options)
CallCreateOne(d) ==
    /\ op = "idle"
    /\ writes < MaxWrites
    /\ op' = "createOne"
    /\ call' = [NoCall EXCEPT !.data = d]
    /\ stack' = <<Frame("createOne", "Orders", 0, 0)>>
    /\ pc' = "validate"
    /\ data' = d
    /\ lcol' = 1
    /\ lidx' = 1
    /\ UNCHANGED <<where, fields, recordId, total, cursor, offsetLocal, tempOffet, log,
                   result, backendVars, filterVars, appVars, metaVars, stepVars>>

\* the caller invokes updateOne(options); lines 599-601 drop the primary key
CallUpdateOne(id, d) ==
    /\ op = "idle"
    /\ op' = "updateOne"
    /\ call' = [NoCall EXCEPT !.data = d, !.id = id]
    /\ stack' = <<Frame("updateOne", "Orders", 0, 0)>>
    /\ pc' = "validate"
    /\ data' = IF Truthy(d[OrdersSchema.primary_key])
               THEN [d EXCEPT ![OrdersSchema.primary_key] = Undefined]
               ELSE d
    /\ recordId' = id
    /\ lcol' = 1
    /\ lidx' = 1
    /\ UNCHANGED <<where, fields, total, cursor, offsetLocal, tempOffet, log, result,
                   backendVars, filterVars, appVars, metaVars, stepVars>>

\* a validation that looks no further than the first linked id
LinksLeft_FirstOnly(d, schema, c, i) ==
    IF c = 1 /\ i = 1 THEN NextLink(d, schema, c, i) ELSE [col |-> 0, idx |-> 0]

\* the linked id that lines 232-257 have yet to check
LinksLeft(d, schema, c, i) == NextLink(d, schema, c, i)

\* lines 235-249 / 611-625 for one linked id: the value becomes a list, the linked
\* table's schema is fetched and findOne is called on the id
ValidateLink ==
    /\ pc = "validate"
    /\ Len(log) < MaxRequests
    /\ Len(stack) < MaxDepth
    /\ LET schema == SchemaOf(Top.table)
           pos == LinksLeft(data, schema, lcol, lidx)
       IN /\ pos.col # 0
          /\ LET field == schema.columns[pos.col].field
                 id == data[field].ids[pos.idx]
                 linkedTable == LinkedTable(schema, field)
             IN /\ data' = [data EXCEPT ![field] = Array(@.ids)]
                /\ log' = Append(log, Request("GET", "tables", linkedTable.table))
                /\ stack' = Append(stack, Frame("findOne", linkedTable.table, 0, 0))
                /\ where' = <<[column |-> "id", operator |-> "equals", value |-> Str(id)]>>
                /\ fields' = <<>>
                /\ lcol' = pos.col
                /\ lidx' = pos.idx
                /\ pc' = "fo_entry"
    /\ UNCHANGED <<op, call, recordId, total, cursor, offsetLocal, tempOffet, result,
                   backendVars, filterVars, appVars, metaVars, stepVars>>

\* createOne, lines 259-281: the create request and the record echoed back
SendCreate ==
    /\ pc = "validate"
    /\ Top.fn = "createOne"
    /\ Len(log) < MaxRequests
    /\ LinksLeft(data, SchemaOf(Top.table), lcol, lidx).col = 0
    /\ LET n == Len(table) + Cardinality(removed) + 1
       IN /\ log' = Append(log, [Request("POST", "records", Top.table) EXCEPT !.data = data])
          /\ table' = Append(table, n)
          /\ writes' = writes + 1
          /\ result' = Ok(One(Defined(FlatRecord(Top.table, n,
                                         Range(DefaultFields(SchemaOf(Top.table)))))))
    /\ stack' = <<>>
    /\ pc' = "done"
    /\ UNCHANGED <<op, call, where, fields, data, recordId, total, cursor, offsetLocal,
                   tempOffet, lcol, lidx, stamped, removed, filterVars, appVars, metaVars, stepVars>>

\* updateOne, lines 635-653: the partial update and the record echoed back; under
\* deleteOne (lines 696-702) the echoed id makes the answer {deleted: 1}
SendUpdate ==
    /\ pc = "validate"
    /\ Top.fn = "updateOne"
    /\ Len(log) < MaxRequests
    /\ LinksLeft(data, SchemaOf(Top.table), lcol, lidx).col = 0
    /\ LET n == GetRecord(Top.table, ViewOf(Top.table, table), recordId)
       IN /\ log' = Append(log, [Request("PATCH", "record", Top.table) EXCEPT
                                    !.id = recordId, !.data = data])
          /\ IF n = 0
             THEN /\ Fails("TypeError: Cannot read properties of undefined")
                  /\ UNCHANGED stamped
             ELSE /\ result' = IF Len(stack) > 1
                               THEN Ok(Value(DeleteResponse(1)))
                               ELSE Ok(One(Defined(FlatRecord(Top.table, n,
                                         Range(DefaultFields(SchemaOf(Top.table)))))))
                  /\ stamped' = IF data.deletedAt # Undefined THEN stamped \cup {n} ELSE stamped
                  /\ stack' = <<>>
                  /\ pc' = "done"
                  /\ UNCHANGED <<lcol, lidx>>
    /\ UNCHANGED <<op, call, where, fields, data, recordId, total, cursor, offsetLocal,
                   tempOffet, table, writes, removed, filterVars, appVars, metaVars, stepVars>>

-----------------------------------------------------------------------------
(* deleteOne *)

\* the reading of the clock, as toISOString prints it
NowISO == "2024-05-06T07:08:09.123Z"

\* String.prototype.slice(a, b) for 0 <= a <= b
Slice(s, a, b) == SubSeq(s, a + 1, Min(b, Len(s)))

\* String.prototype.replace(c, by) for a one-character pattern: the first c only
ReplaceFirst(s, c, by) ==
    IF \E i \in 1..Len(s) : SubSeq(s, i, i) = c
    THEN LET i == CHOOSE j \in 1..Len(s) :
                     /\ SubSeq(s, j, j) = c
                     /\ \A k \in 1..(j - 1) : SubSeq(s, k, k) # c
         IN SubSeq(s, 1, i - 1) \o by \o SubSeq(s, i + 1, Len(s))
    ELSE s

\* a stamp that keeps the whole ISO string
SoftDeleteStamp_Whole == NowISO

\* line 684: new Date().toISOString().slice(0, 19).replace('T', ' ')
SoftDeleteStamp == ReplaceFirst(Slice(NowISO, 0, 19), "T", " ")

\* the caller invokes deleteOne(options); with options.softDelete it calls updateOne
\* (lines 678-688), whose entry and validation loop have nothing to do for this data
CallDeleteOne(id, softDelete) ==
    /\ op = "idle"
    /\ op' = "deleteOne"
    /\ call' = [NoCall EXCEPT !.id = id, !.softDelete = softDelete]
    /\ recordId' = id
    /\ IF softDelete # ""
       THEN /\ stack' = <<Frame("deleteOne", "Orders", 0, 0), Frame("updateOne", "Orders", 0, 0)>>
            /\ data' = [NoData EXCEPT ![softDelete] = Str(SoftDeleteStamp)]
            /\ pc' = "validate"
            /\ lcol' = 1
            /\ lidx' = 1
       ELSE /\ stack' = <<Frame("deleteOne", "Orders", 0, 0)>>
            /\ pc' = "do_delete"
            /\ UNCHANGED <<data, lcol, lidx>>
    /\ UNCHANGED <<where, fields, total, cursor, offsetLocal, tempOffet, log, result,
                   backendVars, filterVars, appVars, metaVars, stepVars>>

\* lines 690-702: the DELETE request; the backend answers {deleted: true, id} for a
\* record it holds and 404 otherwise, which createRequest turns into undefined
SendDelete ==
    /\ pc = "do_delete"
    /\ Len(log) < MaxRequests
    /\ LET n == GetRecord(Top.table, ViewOf(Top.table, table), recordId)
           Kept(m) == m # n
       IN /\ log' = Append(log, [Request("DELETE", "record", Top.table) EXCEPT !.id = recordId])
          /\ IF n = 0
             THEN /\ Fails("TypeError: Cannot read properties of undefined")
                  /\ UNCHANGED <<table, removed, stamped>>
             ELSE /\ table' = SelectSeq(table, Kept)
                  /\ removed' = removed \cup {n}
                  /\ stamped' = stamped \ {n}
                  /\ result' = Ok(Value(DeleteResponse(1)))
                  /\ stack' = <<>>
                  /\ pc' = "done"
                  /\ UNCHANGED <<lcol, lidx>>
    /\ UNCHANGED <<op, call, where, fields, data, recordId, total, cursor, offsetLocal,
                   tempOffet, writes, filterVars, appVars, metaVars, stepVars>>

-----------------------------------------------------------------------------
(* The base's metadata: checkConnection, getSchema, createTable and truncate *)

\* a field and a table as GET /meta/bases/BaseId/tables describes them
Field(name, type, linkedTableId) ==
    [name |-> name, type |-> type, linkedTableId |-> linkedTableId]
BaseTable(id, name, fs) == [id |-> id, name |-> name, fields |-> fs]

MULTIPLE_RECORD_LINKS == "multipleRecordLinks"

OrdersMeta ==
    BaseTable("tblOrders", "Orders",
              <<Field("name", "singleLineText", ""), Field("active", "checkbox", ""),
                Field("CustomerId", MULTIPLE_RECORD_LINKS, "tblCustomers"),
                Field("ReferrerId", MULTIPLE_RECORD_LINKS, "tblCustomers")>>)

CustomersMeta == BaseTable("tblCustomers", "Customers", <<Field("name", "singleLineText", "")>>)

EmployeesMeta ==
    BaseTable("tblEmployees", "Employees",
              <<Field("name", "singleLineText", ""),
                Field("ManagerId", MULTIPLE_RECORD_LINKS, "tblEmployees")>>)

TableNames == {"Orders", "Customers", "Employees", "Products"}

\* lines 954-1004
fieldMapper(type) ==
    CASE type \in {"singleLineText", "multilineText", "email", "url"} -> "STRING"
      [] type \in {"number", "autoNumber", "count"} -> "NUMBER"
      [] type = "checkbox" -> "BOOLEAN"
      [] type \in {"date", "dateTime"} -> "DATE"
      [] type \in {MULTIPLE_RECORD_LINKS, "formula", "rollup"} -> "JSON"
      [] type = "singleSelect" -> "ENUM"
      [] OTHER -> "UNKNOWN"

\* lines 1010-1033
fieldMapperRev(type) ==
    CASE type = "STRING" -> "singleLineText"
      [] type = "NUMBER" -> "number"
      [] type = "BOOLEAN" -> "checkbox"
      [] type = "DATE" -> "dateTime"
      [] type = "JSON" -> "multilineText"
      [] type = "ENUM" -> "singleSelect"
      [] OTHER -> "multilineText"

NamesOf(tables) == {tables[i].name : i \in 1..Len(tables)}

\* response.tables.find(t => t.name === name), for a name the list holds
TableNamed(tables, name) ==
    tables[CHOOSE i \in 1..Len(tables) :
               tables[i].name = name /\ \A k \in 1..(i - 1) : tables[k].name # name]

\* response.tables.find(t => t.id === id), for an id the list holds
TableWithId(tables, id) ==
    tables[CHOOSE i \in 1..Len(tables) :
               tables[i].id = id /\ \A k \in 1..(i - 1) : tables[k].id # id]

\* lines 166-176: one relation per link field of the target table, in field order
ForwardRelations(tables, target) ==
    LET IsLink(f) == f.type = MULTIPLE_RECORD_LINKS
        links == SelectSeq(TableNamed(tables, target).fields, IsLink)
    IN IF Len(links) = 0 THEN <<>>
       ELSE [i \in 1..Len(links) |->
                [table |-> TableWithId(tables, links[i].linkedTableId).name, column |-> "id",
                 org_table |-> target, org_column |-> links[i].name]]

\* lines 193-204 for one table t of the list: the test of line 195 compares the
\* field's linked table with t itself, the table whose fields are being scanned
ReverseRelationsOf(t, target) ==
    LET Matches(f) == f.type = MULTIPLE_RECORD_LINKS /\ f.linkedTableId = t.id
        links == SelectSeq(t.fields, Matches)
    IN IF Len(links) = 0 THEN <<>>
       ELSE [i \in 1..Len(links) |->
                [table |-> target, column |-> links[i].name,
                 org_table |-> t.name, org_column |-> "id"]]

\* lines 192-205: the relations pushed by the scan of the first n tables
RECURSIVE ReverseRelations(_, _, _)
ReverseRelations(tables, target, n) ==
    IF n = 0 THEN <<>>
    ELSE ReverseRelations(tables, target, n - 1) \o ReverseRelationsOf(tables[n], target)

\* lines 148-212: the schema built from the table list, for a table the list holds
getSchema(tables, target) ==
    LET fs == TableNamed(tables, target).fields
        columns == <<IdColumn>> \o
                   [i \in 1..Len(fs) |-> Column(fs[i].name, fieldMapper(fs[i].type),
                                                fs[i].type = MULTIPLE_RECORD_LINKS)]
    IN [table |-> target,
        columns |-> columns,
        primary_key |-> PrimaryKey(columns),
        relations |-> ForwardRelations(tables, target) \o
                      ReverseRelations(tables, target, Len(tables))]

SchemaResult == [kind |-> "schema", one |-> UndefinedRecord, many |-> NoMany, value |-> Undefined]

\* how a backend request can end: answered, refused with an HTTP error status, or
\* left without any response
Outcomes == {"ok", "http_error", "no_response"}

\* createRequest, lines 56-83: the response data; undefined after an HTTP error,
\* which the catch block only logs; and an exception when there is no response,
\* because the catch block reads e.response.data
createRequest(outcome) ==
    CASE outcome = "ok" -> "data"
      [] outcome = "http_error" -> "undefined"
      [] OTHER -> "throws"

\* one more request goes out and ends as outcome
Requests(req, outcome) ==
    /\ Len(log) < MaxAdminRequests
    /\ outcome # "ok" => failed < MaxFailures
    /\ log' = Append(log, req)
    /\ failed' = IF outcome = "ok" THEN failed ELSE failed + 1

\* catch blocks that hand every error on to the caller
Caught_Rethrows(fn, msg) == Err(msg)

\* what the catch block of operation fn makes of an error thrown inside it:
\* checkConnection (line 99) and createTable (line 808) return false, truncate
\* (lines 843-850) returns, every other operation throws new Error(e)
Caught(fn, msg) ==
    IF fn \in {"checkConnection", "createTable"} THEN Ok(Value(Bool(FALSE)))
    ELSE IF fn = "truncate" THEN Ok(Value(Undefined))
    ELSE Err(msg)

Throws(msg) ==
    /\ result' = Caught(op, msg)
    /\ pc' = "done"

ReturnsValue(v) ==
    /\ result' = Ok(v)
    /\ pc' = "done"

\* the caller invokes checkConnection(options)
CallCheckConnection ==
    /\ op = "idle"
    /\ op' = "checkConnection"
    /\ pc' = "cc_probe"
    /\ UNCHANGED <<call, stack, where, fields, data, recordId, total, cursor, offsetLocal,
                   tempOffet, lcol, lidx, log, result, backendVars, filterVars, appVars, metaVars,
                   stepVars>>

\* lines 87-100: the probe GET /meta/bases; true unless createRequest threw
CheckConnectionProbe(outcome) ==
    /\ pc = "cc_probe"
    /\ Requests(Request("GET", "bases", ""), outcome)
    /\ IF createRequest(outcome) = "throws"
       THEN Throws("TypeError: Cannot read properties of undefined")
       ELSE ReturnsValue(Value(Bool(TRUE)))
    /\ UNCHANGED <<op, call, stack, where, fields, data, recordId, total, cursor, offsetLocal,
                   tempOffet, lcol, lidx, backendVars, filterVars, appVars, metaVars, page, schemaOut>>

\* the caller invokes getSchema({table})
CallGetSchema(t) ==
    /\ op = "idle"
    /\ op' = "getSchema"
    /\ call' = [NoCall EXCEPT !.table = t]
    /\ pc' = "gs_fetch"
    /\ UNCHANGED <<stack, where, fields, data, recordId, total, cursor, offsetLocal,
                   tempOffet, lcol, lidx, log, result, backendVars, filterVars, appVars, metaVars,
                   stepVars>>

\* lines 137-219: the table list, and the schema built from it
GetSchemaFetch(outcome) ==
    /\ pc = "gs_fetch"
    /\ Requests(Request("GET", "tables", call.table), outcome)
    /\ IF createRequest(outcome) # "data"
       THEN /\ Throws("TypeError: Cannot read properties of undefined")
            /\ UNCHANGED schemaOut
       ELSE IF call.table \notin NamesOf(base)
       THEN /\ Throws("Table not found")
            /\ UNCHANGED schemaOut
       ELSE /\ ReturnsValue(SchemaResult)
            /\ schemaOut' = getSchema(base, call.table)
    /\ UNCHANGED <<op, call, stack, where, fields, data, recordId, total, cursor, offsetLocal,
                   tempOffet, lcol, lidx, backendVars, filterVars, appVars, metaVars, page>>

\* a test that never finds the table
TableListed_Never(tables, name) == FALSE

\* line 726: tables.includes(schema.table)
TableListed(tables, name) == name \in NamesOf(tables)

\* lines 729-731 over schema.columns: the column named id takes the name <table>Id,
\* in the schema object the caller passed
RenamePrimaryKey(schema) ==
    [schema EXCEPT !.columns =
        [i \in 1..Len(schema.columns) |->
            IF schema.columns[i].field = "id"
            THEN [schema.columns[i] EXCEPT !.field = schema.table \o "Id"]
            ELSE schema.columns[i]]]

\* lines 776-780: the field specifications of the create-table request
FieldSpecs(schema) ==
    [i \in 1..Len(schema.columns) |->
        Field(schema.columns[i].field, fieldMapperRev(schema.columns[i].type), "")]

\* the caller invokes createTable(schema)
CallCreateTable ==
    /\ op = "idle"
    /\ op' = "createTable"
    /\ call' = [NoCall EXCEPT !.table = schemaArg.table]
    /\ pc' = "ct_list"
    /\ UNCHANGED <<stack, where, fields, data, recordId, total, cursor, offsetLocal,
                   tempOffet, lcol, lidx, log, result, backendVars, filterVars, appVars, metaVars,
                   stepVars>>

\* lines 724-781: listTables, the test for the table, and the mapping of the columns
CreateTableList(outcome) ==
    /\ pc = "ct_list"
    /\ Requests(Request("GET", "tables", schemaArg.table), outcome)
    /\ IF createRequest(outcome) # "data"
       THEN /\ Throws("TypeError: Cannot read properties of undefined")
            /\ UNCHANGED schemaArg
       ELSE IF TableListed(base, schemaArg.table)
       THEN /\ ReturnsValue(Value(Bool(TRUE)))
            /\ UNCHANGED schemaArg
       ELSE /\ schemaArg' = RenamePrimaryKey(schemaArg)
            /\ pc' = "ct_create"
            /\ UNCHANGED result
    /\ UNCHANGED <<op, call, stack, where, fields, data, recordId, total, cursor, offsetLocal,
                   tempOffet, lcol, lidx, backendVars, filterVars, appVars, base, tableCreates, page,
                   schemaOut>>

\* lines 783-800: the create-table request; the backend refuses a name it already has
CreateTableCreate(outcome) ==
    /\ pc = "ct_create"
    /\ LET name == schemaArg.table
           specs == FieldSpecs(schemaArg)
           names == [i \in 1..Len(specs) |-> specs[i].name]
           end == IF outcome = "ok" /\ name \in NamesOf(base) THEN "http_error" ELSE outcome
       IN /\ Requests([Request("POST", "tables", name) EXCEPT !.fields = names], end)
          /\ IF createRequest(end) = "data"
             THEN /\ base' = Append(base, BaseTable("tbl" \o name, name, specs))
                  /\ tableCreates' = [tableCreates EXCEPT ![name] = @ + 1]
                  /\ ReturnsValue(Value(Bool(TRUE)))
             ELSE /\ Throws("TypeError: Cannot read properties of undefined")
                  /\ UNCHANGED <<base, tableCreates>>
    /\ UNCHANGED <<op, call, stack, where, fields, data, recordId, total, cursor, offsetLocal,
                   tempOffet, lcol, lidx, backendVars, filterVars, appVars, schemaArg, page, schemaOut>>

\* line 824
TruncatePageSize == 10

\* the records of the table truncate works on: those of Orders, and none for a
\* table that createTable has made
TruncateView(t, orders) == IF t = "Orders" THEN orders ELSE <<>>

\* the caller invokes truncate(table)
CallTruncate(t) ==
    /\ op = "idle"
    /\ op' = "truncate"
    /\ call' = [NoCall EXCEPT !.table = t]
    /\ pc' = "tr_schema"
    /\ UNCHANGED <<stack, where, fields, data, recordId, total, cursor, offsetLocal,
                   tempOffet, lcol, lidx, log, result, backendVars, filterVars, appVars, metaVars,
                   stepVars>>

\* line 815: getSchema({table})
TruncateSchema(outcome) ==
    /\ pc = "tr_schema"
    /\ Requests(Request("GET", "tables", call.table), outcome)
    /\ IF createRequest(outcome) # "data"
       THEN Throws("TypeError: Cannot read properties of undefined")
       ELSE IF call.table \notin NamesOf(base)
       THEN Throws("Table not found")
       ELSE pc' = "tr_list" /\ UNCHANGED result
    /\ UNCHANGED <<op, call, stack, where, fields, data, recordId, total, cursor, offsetLocal,
                   tempOffet, lcol, lidx, backendVars, filterVars, appVars, metaVars, page, schemaOut>>

\* lines 820-832: one pass of the while loop up to its for loop: a page of ten
\* primary keys, taken from the start of the table
TruncateList(outcome) ==
    /\ pc = "tr_list"
    /\ LET schema == getSchema(base, call.table)
           resp == ListRecords(TruncateView(call.table, table), TruncatePageSize, NoCursor)
       IN /\ Requests(ListRequest(call.table, TruncatePageSize, 0, NoCursor, "",
                                  <<schema.primary_key>>), outcome)
          /\ IF createRequest(outcome) # "data"
             THEN /\ Throws("TypeError: Cannot read properties of undefined")
                  /\ UNCHANGED page
             ELSE IF Len(resp.records) = 0
             THEN /\ ReturnsValue(Value(Undefined))
                  /\ UNCHANGED page
             ELSE /\ page' = resp.records
                  /\ pc' = "tr_delete"
                  /\ UNCHANGED result
    /\ UNCHANGED <<op, call, stack, where, fields, data, recordId, total, cursor, offsetLocal,
                   tempOffet, lcol, lidx, backendVars, filterVars, appVars, metaVars, schemaOut>>

\* lines 833-838: one pass of the for loop: the DELETE of one listed record, whose
\* result is not looked at
TruncateDelete(outcome) ==
    /\ pc = "tr_delete"
    /\ LET n == Head(page)
           Kept(m) == m # n
       IN /\ Requests([Request("DELETE", "record", call.table) EXCEPT
                          !.id = RecId(call.table, n)], outcome)
          /\ IF createRequest(outcome) = "throws"
             THEN /\ Throws("TypeError: Cannot read properties of undefined")
                  /\ UNCHANGED <<page, table, stamped, removed>>
             ELSE /\ page' = Tail(page)
                  /\ pc' = IF Len(page) = 1 THEN "tr_list" ELSE "tr_delete"
                  /\ UNCHANGED result
                  /\ IF createRequest(outcome) = "data"
                     THEN /\ table' = SelectSeq(table, Kept)
                          /\ removed' = removed \cup {n}
                          /\ stamped' = stamped \ {n}
                     ELSE UNCHANGED <<table, stamped, removed>>
    /\ UNCHANGED <<op, call, stack, where, fields, data, recordId, total, cursor, offsetLocal,
                   tempOffet, lcol, lidx, writes, filterVars, appVars, metaVars, schemaOut>>

\* the operation has settled; the next request starts from a clean slate
Finish ==
    /\ pc = "done"
    /\ op' = "idle" /\ call' = NoCall /\ stack' = <<>> /\ pc' = "idle"
    /\ where' = <<>> /\ fields' = <<>> /\ data' = NoData /\ recordId' = ""
    /\ total' = 0 /\ cursor' = NoCursor /\ offsetLocal' = NoCursor
    /\ tempOffet' = 0 /\ lcol' = 0 /\ lidx' = 0
    /\ log' = <<>>
    /\ result' = NoResult
    /\ page' = <<>> /\ failed' = 0 /\ schemaOut' = NoSchema
    /\ UNCHANGED <<backendVars, filterVars, appVars, metaVars>>

-----------------------------------------------------------------------------
(* The requests a caller makes *)

TableSizes == {p * PageSize + d : p \in 0..MaxPages, d \in {0, 1, 50}}

Pred(c, o, v) == [column |-> c, operator |-> o, value |-> v]

WhereChoices ==
    {<<>>,
     <<Pred("id", "equals", Str("rec1"))>>,
     <<Pred("id", "equals", Str("rec999"))>>,
     <<Pred("id", "equals", Str(""))>>,
     <<Pred("id", "not_equals", Str("rec1"))>>,
     <<Pred("name", "equals", Str("x"))>>,
     <<Pred("active", "equals", Bool(FALSE))>>,
     <<Pred("name", "equals", Str("x")), Pred("id", "equals", Str("rec1"))>>,
     <<Pred("id", "equals", Str("")), Pred("name", "equals", Str("x"))>>}

FieldsChoices == {<<>>, <<"name">>}
LimitChoices == {0, 20, 170}
OffsetChoices == {0, 50, 100, 150}

DataChoices ==
    [id : {Undefined, Str("rec1"), Str(""), Num(0)},
     CustomerId : {Absent, Scalar("cus1"), Scalar("cus9"), Scalar(""), Array(<<>>),
                   Array(<<"cus1", "cus2">>), Array(<<"cus1", "cus9">>), Array(<<"">>)},
     ReferrerId : {Absent, Scalar("cus2"), Scalar("cus9")},
     deletedAt : {Undefined}]

IdChoices == {"rec1", "rec999"}
SoftDeleteChoices == {"", "deletedAt"}

Init ==
    /\ wtfInput = <<>> /\ wtfWhere = <<>> /\ wtfOut = <<>>
    /\ \E n \in TableSizes : table = [i \in 1..n |-> i]
    /\ writes = 0 /\ stamped = {} /\ removed = {}
    /\ base = <<OrdersMeta, CustomersMeta>>
    /\ schemaArg = OrdersSchema
    /\ tableCreates = [t \in TableNames |-> 0]
    /\ IdleCall
    /\ IdleHooks /\ IdleBoot

Next ==
    \/ \E w \in WhereChoices, f \in FieldsChoices, l \in LimitChoices, o \in OffsetChoices :
          CallFindMany(w, f, l, o)
    \/ \E w \in WhereChoices, f \in FieldsChoices : CallFindOne(w, f)
    \/ \E d \in DataChoices : CallCreateOne(d)
    \/ \E id \in IdChoices, d \in DataChoices : CallUpdateOne(id, d)
    \/ FindManyEntry
    \/ FindTotalRecordsStep
    \/ FindManyAdvance
    \/ FindManyPosition
    \/ FindManyFetch
    \/ FindOneEntry
    \/ FindOneFetch
    \/ ValidateLink
    \/ SendCreate
    \/ SendUpdate
    \/ \E id \in IdChoices, sd \in SoftDeleteChoices : CallDeleteOne(id, sd)
    \/ SendDelete
    \/ Finish

Spec == Init /\ [][Next]_vars

-----------------------------------------------------------------------------
(* The operations on the base's metadata, with requests that can fail *)

ProductsColumns == <<IdColumn, Column("name", "STRING", FALSE), Column("price", "NUMBER", FALSE)>>

\* a schema a caller builds for a table the base does not have yet
ProductsSchema ==
    [table |-> "Products",
     columns |-> ProductsColumns,
     primary_key |-> PrimaryKey(ProductsColumns),
     relations |-> <<>>]

BaseChoices == {<<OrdersMeta, CustomersMeta>>, <<OrdersMeta, CustomersMeta, EmployeesMeta>>}
SchemaChoices == {OrdersSchema, ProductsSchema}
TruncateSizes == {0, 2, TruncatePageSize + 1}
GetSchemaChoices == {"Orders", "Customers", "Employees", "Products"}
TruncateChoices == {"Orders", "Products"}

InitAdmin ==
    /\ wtfInput = <<>> /\ wtfWhere = <<>> /\ wtfOut = <<>>
    /\ \E n \in TruncateSizes : table = [i \in 1..n |-> i]
    /\ writes = 0 /\ stamped = {} /\ removed = {}
    /\ base \in BaseChoices
    /\ schemaArg \in SchemaChoices
    /\ tableCreates = [t \in TableNames |-> 0]
    /\ IdleCall
    /\ IdleHooks /\ IdleBoot

NextAdmin ==
    \/ CallCheckConnection
    \/ \E o \in Outcomes : CheckConnectionProbe(o)
    \/ \E t \in GetSchemaChoices : CallGetSchema(t)
    \/ \E o \in Outcomes : GetSchemaFetch(o)
    \/ CallCreateTable
    \/ \E o \in Outcomes : CreateTableList(o)
    \/ \E o \in Outcomes : CreateTableCreate(o)
    \/ \E t \in TruncateChoices : CallTruncate(t)
    \/ \E o \in Outcomes : TruncateSchema(o)
    \/ \E o \in Outcomes : TruncateList(o)
    \/ \E o \in Outcomes : TruncateDelete(o)
    \/ Finish

SpecAdmin == InitAdmin /\ [][NextAdmin]_vars

-----------------------------------------------------------------------------
(* Webhooks (src/src/helpers/Webhook.ts): the lists of webhooks of a table  *)
(* are read through a key-value cache; a publish delivers to every webhook  *)
(* of its list and records each delivery in the webhook-log table.          *)

\* a record of the webhook table; user "" stands for a null user_identifier
Webhook(id, t, u) == [id |-> id, table |-> t, user |-> u]

\* `webhooks:all:${schema.table}`
AllKey(t) == "webhooks:all:" \o t
\* `webhooks:${schema.table}:${user_identifier}`
UserKey(t, u) == "webhooks:" \o t \o ":" \o u
\* `webhooks:${data.table}:*`
DelKey(t) == "webhooks:" \o t \o ":*"

\* the cache: get (undefined on a miss, which !webhooks tests), set and del by key
cacheHas(c, k) == \E e \in c : e.key = k
cacheGet(c, k) == (CHOOSE e \in c : e.key = k).data
cacheSet(c, k, d) == {e \in c : e.key # k} \cup {[key |-> k, data |-> d]}
cacheDel(c, k) == {e \in c : e.key # k}

RECURSIVE SortById(_)
SortById(S) ==
    IF S = {} THEN <<>>
    ELSE LET first == CHOOSE w \in S : \A x \in S : w.id <= x.id
         IN <<first>> \o SortById(S \ {first})

\* FIND_MANY on the webhook table: table equals t and user_identifier is null (u = "")
\* or equals u
FindWebhooks(h, t, u) == SortById({w \in h : w.table = t /\ w.user = u})

DeliveryOutcomes == {"ok", "http_error", "no_response"}

\* the webhook-log record of lines 115-123 (delivered) and 132-138 (no delivered field)
LogRecord(w, status, delivered) ==
    [webhook_id |-> w.id, response_status |-> status, delivered |-> delivered]

\* publish(schema, type, id, user_identifier); valid is what authentication.auth answers
\* for this table and user during the call
CallPublish(t, u, valid) ==
    /\ hpc = "idle"
    /\ harg' = [op |-> "publish", table |-> t, user |-> u, id |-> 0, auth |-> valid]
    /\ hpc' = "load_all"
    /\ targets' = <<>> /\ hidx' = 1 /\ attempts' = <<>> /\ hookLog' = <<>> /\ hresult' = ""
    /\ UNCHANGED <<hooks, nextHookId, cache, store, coreVars, bootVars>>

\* lines 41-58: the table-wide list, from the cache or from the database
PublishLoadAll ==
    /\ hpc = "load_all"
    /\ LET key == AllKey(harg.table)
           hit == cacheHas(cache, key)
           webhooks == IF hit THEN cacheGet(cache, key)
                       ELSE FindWebhooks(hooks, harg.table, "")
       IN  /\ targets' = webhooks
           /\ cache' = IF hit THEN cache ELSE cacheSet(cache, key, webhooks)
    /\ hpc' = IF harg.user # "" THEN "load_user" ELSE "deliver"
    /\ UNCHANGED <<hooks, nextHookId, store, harg, hidx, attempts, hookLog, hresult, coreVars,
                   bootVars>>

\* lines 60-84: the user's list; it is added to webhooks.data inside if(!webhooksUser).
\* webhooks is the object the cache handed out or was given at line 53: a store that
\* keeps the object sees the assignment of line 81
PublishLoadUser ==
    /\ hpc = "load_user"
    /\ LET key == UserKey(harg.table, harg.user)
           webhooksUser == FindWebhooks(hooks, harg.table, harg.user)
           stored == cacheSet(cache, key, webhooksUser)
       IN  IF cacheHas(cache, key)
           THEN UNCHANGED <<targets, cache>>
           ELSE /\ Len(targets \o webhooksUser) <= MaxTargets
                /\ targets' = targets \o webhooksUser
                /\ cache' = IF store.shares /\ cacheHas(cache, AllKey(harg.table))
                            THEN cacheSet(stored, AllKey(harg.table), targets \o webhooksUser)
                            ELSE stored
    /\ hpc' = "deliver"
    /\ UNCHANGED <<hooks, nextHookId, store, harg, hidx, attempts, hookLog, hresult, coreVars,
                   bootVars>>

\* lines 86-142, one pass of the loop: the delivery to targets[hidx] and its log record.
\* An error without a response makes the catch throw at e.response.status
PublishDeliver(outcome) ==
    /\ hpc = "deliver" /\ hidx <= Len(targets)
    /\ LET webhook == targets[hidx]
       IN  IF harg.user # "" /\ ~harg.auth
           THEN /\ hidx' = hidx + 1
                /\ UNCHANGED <<attempts, hookLog, hpc, hresult>>
           ELSE /\ attempts' = Append(attempts, [webhook_id |-> webhook.id, outcome |-> outcome])
                /\ CASE outcome = "ok" ->
                          /\ hookLog' = Append(hookLog, LogRecord(webhook, 200, TRUE))
                          /\ hidx' = hidx + 1
                          /\ UNCHANGED <<hpc, hresult>>
                     [] outcome = "http_error" ->
                          /\ hookLog' = Append(hookLog, LogRecord(webhook, 503, FALSE))
                          /\ hidx' = hidx + 1
                          /\ UNCHANGED <<hpc, hresult>>
                     [] outcome = "no_response" ->
                          /\ hpc' = "done" /\ hresult' = "threw"
                          /\ UNCHANGED <<hookLog, hidx>>
    /\ UNCHANGED <<hooks, nextHookId, cache, store, harg, targets, coreVars, bootVars>>

\* the loop of line 86 is over
PublishReturn ==
    /\ hpc = "deliver" /\ hidx > Len(targets)
    /\ hpc' = "done" /\ hresult' = "returned"
    /\ UNCHANGED <<hooks, nextHookId, cache, store, harg, targets, hidx, attempts, hookLog,
                   coreVars, bootVars>>

\* addWebhook(data), lines 146-154
AddWebhook(t, u) ==
    /\ hpc = "idle" /\ nextHookId <= MaxHooks
    /\ hooks' = hooks \cup {Webhook(nextHookId, t, u)}
    /\ nextHookId' = nextHookId + 1
    /\ cache' = cacheDel(cache, DelKey(t))
    /\ harg' = [op |-> "add", table |-> t, user |-> u, id |-> nextHookId, auth |-> FALSE]
    /\ hpc' = "done" /\ hresult' = "returned"
    /\ UNCHANGED <<store, targets, hidx, attempts, hookLog, coreVars, bootVars>>

\* editWebhook(id, data), lines 156-169; data has a user_identifier and may have a table
\* (t = "undefined" when it has none, which is what the key of line 167 then holds)
EditWebhook(id, t, u) ==
    /\ hpc = "idle"
    /\ hooks' = {IF w.id = id THEN Webhook(id, IF t = "undefined" THEN w.table ELSE t, u)
                 ELSE w : w \in hooks}
    /\ cache' = cacheDel(cache, DelKey(t))
    /\ harg' = [op |-> "edit", table |-> t, user |-> u, id |-> id, auth |-> FALSE]
    /\ hpc' = "done" /\ hresult' = "returned"
    /\ UNCHANGED <<nextHookId, store, targets, hidx, attempts, hookLog, coreVars, bootVars>>

\* deleteWebhook(id), lines 171-196
DeleteWebhook(id) ==
    /\ hpc = "idle"
    /\ IF \E w \in hooks : w.id = id
       THEN LET webhook == CHOOSE w \in hooks : w.id = id
            IN  /\ hooks' = hooks \ {webhook}
                /\ cache' = cacheDel(cache, DelKey(webhook.table))
                /\ harg' = [op |-> "delete", table |-> webhook.table, user |-> webhook.user,
                            id |-> id, auth |-> FALSE]
       ELSE /\ harg' = [op |-> "delete", table |-> "", user |-> "", id |-> id, auth |-> FALSE]
            /\ UNCHANGED <<hooks, cache>>
    /\ hpc' = "done" /\ hresult' = "returned"
    /\ UNCHANGED <<nextHookId, store, targets, hidx, attempts, hookLog, coreVars, bootVars>>

\* a cached list reaches its TTL
Expire(k) ==
    /\ hpc = "idle"
    /\ cacheHas(cache, k)
    /\ cache' = cacheDel(cache, k)
    /\ UNCHANGED <<hooks, nextHookId, store, harg, hpc, targets, hidx, attempts, hookLog,
                   hresult, coreVars, bootVars>>

\* the webhook operation has settled
HookFinish ==
    /\ hpc = "done"
    /\ harg' = NoHookCall /\ hpc' = "idle"
    /\ targets' = <<>> /\ hidx' = 1 /\ attempts' = <<>> /\ hookLog' = <<>> /\ hresult' = ""
    /\ UNCHANGED <<hooks, nextHookId, cache, store, coreVars, bootVars>>

HookTables == {"Orders", "Customers"}
HookUsers == {"", "u1"}
PublishTables == {"Orders"}
EditTables == {"Orders", "undefined"}
HookChoices == {{}, {Webhook(1, "Orders", ""), Webhook(2, "Orders", "u1")}}
CacheKeys == {AllKey(t) : t \in PublishTables} \cup
             {UserKey(t, u) : t \in PublishTables, u \in HookUsers \ {""}}

InitHooks ==
    /\ wtfInput = <<>> /\ wtfWhere = <<>> /\ wtfOut = <<>>
    /\ table = <<>> /\ writes = 0 /\ stamped = {} /\ removed = {}
    /\ base = <<>> /\ schemaArg = OrdersSchema /\ tableCreates = <<>>
    /\ IdleCall
    /\ hooks \in HookChoices
    /\ nextHookId = Cardinality(hooks) + 1
    /\ cache = {}
    /\ store \in [shares : BOOLEAN]
    /\ IdleHookCall
    /\ IdleBoot

NextHooks ==
    \/ \E t \in PublishTables, u \in HookUsers, valid \in BOOLEAN : CallPublish(t, u, valid)
    \/ PublishLoadAll
    \/ PublishLoadUser
    \/ \E o \in DeliveryOutcomes : PublishDeliver(o)
    \/ PublishReturn
    \/ \E t \in HookTables, u \in HookUsers : AddWebhook(t, u)
    \/ \E id \in 1..MaxHooks, t \in EditTables, u \in HookUsers : EditWebhook(id, t, u)
    \/ \E id \in 1..MaxHooks : DeleteWebhook(id)
    \/ \E k \in CacheKeys : Expire(k)
    \/ HookFinish

SpecHooks == InitHooks /\ [][NextHooks]_vars

-----------------------------------------------------------------------------
(* Application bootstrap (AppBootup.onApplicationBootstrap): the system     *)
(* tables are looked up one after the other; the catch of a lookup creates  *)
(* a table and, for the auth and roles tables, inserts the seed rows.       *)

LLANA_AUTH_TABLE == "_llana_auth"
LLANA_ROLES_TABLE == "_llana_roles"
LLANA_RELATION_TABLE == "_llana_relation"
LLANA_WEBHOOK_TABLE == "_llana_webhook"
LLANA_WEBHOOK_LOG_TABLE == "_llana_webhook_log"
SystemTables == {LLANA_AUTH_TABLE, LLANA_ROLES_TABLE, LLANA_RELATION_TABLE,
                 LLANA_WEBHOOK_TABLE, LLANA_WEBHOOK_LOG_TABLE}

ExampleAuthRows == 2     \* example_auth
RoleRows == 3 + 6        \* default_roles and custom_roles

\* schema.getSchema throws when the table is missing and when its request fails
LookupOutcomes(t, tables) == IF t \in tables THEN {"found", "failed"} ELSE {"missing"}
LookupThrows(l) == l # "found"

\* query.perform(CREATE_TABLE, {schema}): its result is not looked at
CreationOutcomes == {"created", "rejected"}
AfterCreate(tables, t, c) == IF c = "created" THEN tables \cup {t} ELSE tables

\* query.perform(CREATE) on a table the backend does not have fails; the failure is
\* either swallowed on the way or rejects the bootstrap
InsertFailures == {"swallowed", "thrown"}

\* one lookup of the bootstrap: the table looked up, the table its catch creates
\* (existed: whether the backend had that table), and the rows its catch inserted
BootEntry(looked, l, t, existed, c, rows) ==
    [looked |-> looked, lookup |-> l, table |-> t, existed |-> existed, create |-> c,
     rows |-> rows]

\* try { getSchema(looked) } catch { CREATE_TABLE t ; insert n seed rows } and go to next
Provision(looked, l, t, c, f, n, field, next) ==
    /\ l \in LookupOutcomes(looked, sysTables)
    /\ IF LookupThrows(l)
       THEN LET after == AfterCreate(sysTables, t, c)
                inserts == IF bootConfig.skipAuth THEN 0 ELSE n
                rows == IF t \in after THEN inserts ELSE 0
            IN  /\ sysTables' = after
                /\ seeded' = IF rows > 0 THEN [seeded EXCEPT ![field] = @ + rows] ELSE seeded
                /\ bootLog' = Append(bootLog, BootEntry(looked, l, t, t \in sysTables, c, rows))
                /\ bpc' = IF inserts > 0 /\ t \notin after /\ f = "thrown"
                          THEN "failed" ELSE next
       ELSE /\ bootLog' = Append(bootLog, BootEntry(looked, l, t, t \in sysTables, "none", 0))
            /\ bpc' = next
            /\ UNCHANGED <<sysTables, seeded>>

\* lines 155-159: the cache is reset
BootStart ==
    /\ bpc = "idle" /\ hpc = "idle" /\ bootRuns < MaxBootRuns
    /\ bootRuns' = bootRuns + 1
    /\ bootLog' = <<>>
    /\ cache' = {}
    /\ bpc' = "connect"
    /\ UNCHANGED <<sysTables, seeded, oldLogs, bootConfig, hooks, nextHookId, store, harg, hpc,
                   targets, hidx, attempts, hookLog, hresult, coreVars>>

\* lines 161-167: only an exception stops the bootstrap, the value returned is dropped
BootCheckConnection(o) ==
    /\ bpc = "connect"
    /\ bpc' = IF o = "threw" THEN "failed" ELSE "auth"
    /\ UNCHANGED <<sysTables, seeded, oldLogs, bootConfig, bootRuns, bootLog, hookVars,
                   coreVars>>

\* lines 171-274
BootAuth(l, c, f) ==
    /\ bpc = "auth"
    /\ Provision(LLANA_AUTH_TABLE, l, LLANA_AUTH_TABLE, c, f, ExampleAuthRows, "auth", "roles")
    /\ UNCHANGED <<oldLogs, bootConfig, bootRuns, hookVars, coreVars>>

\* lines 276-463
BootRoles(l, c, f) ==
    /\ bpc = "roles"
    /\ Provision(LLANA_ROLES_TABLE, l, LLANA_ROLES_TABLE, c, f, RoleRows, "roles", "relation")
    /\ UNCHANGED <<oldLogs, bootConfig, bootRuns, hookVars, coreVars>>

\* lines 465-535: the lookup is of the auth table, the table created is the relation table
BootRelation(l, c) ==
    /\ bpc = "relation"
    /\ Provision(LLANA_AUTH_TABLE, l, LLANA_RELATION_TABLE, c, "swallowed", 0, "auth",
                 IF bootConfig.webhooks THEN "webhook" ELSE "end")
    /\ UNCHANGED <<oldLogs, bootConfig, bootRuns, hookVars, coreVars>>

\* lines 539-651
BootWebhook(l, c) ==
    /\ bpc = "webhook"
    /\ Provision(LLANA_WEBHOOK_TABLE, l, LLANA_WEBHOOK_TABLE, c, "swallowed", 0, "auth",
                 "webhook_log")
    /\ UNCHANGED <<oldLogs, bootConfig, bootRuns, hookVars, coreVars>>

\* lines 655-838: a table that is found has its records older than the retention
\* period deleted
BootWebhookLog(l, c) ==
    /\ bpc = "webhook_log"
    /\ Provision(LLANA_WEBHOOK_LOG_TABLE, l, LLANA_WEBHOOK_LOG_TABLE, c, "swallowed", 0, "auth",
                 "end")
    /\ oldLogs' = IF LookupThrows(l) THEN oldLogs ELSE 0
    /\ UNCHANGED <<bootConfig, bootRuns, hookVars, coreVars>>

\* the bootstrap has completed or failed; the application may be started again
BootFinish ==
    /\ bpc \in {"end", "failed"}
    /\ bpc' = "idle"
    /\ UNCHANGED <<sysTables, seeded, oldLogs, bootConfig, bootRuns, bootLog, hookVars,
                   coreVars>>

ConnectionOutcomes == {"connected", "refused", "threw"}
OldLogChoices == {0, 2}

InitBoot ==
    /\ wtfInput = <<>> /\ wtfWhere = <<>> /\ wtfOut = <<>>
    /\ table = <<>> /\ writes = 0 /\ stamped = {} /\ removed = {}
    /\ base = <<>> /\ schemaArg = OrdersSchema /\ tableCreates = <<>>
    /\ IdleCall
    /\ IdleHooks
    /\ sysTables \in SUBSET SystemTables
    /\ seeded = [auth |-> 0, roles |-> 0]
    /\ oldLogs \in IF LLANA_WEBHOOK_LOG_TABLE \in sysTables THEN OldLogChoices ELSE {0}
    /\ bootConfig \in [webhooks : BOOLEAN, skipAuth : BOOLEAN]
    /\ bpc = "idle" /\ bootRuns = 0 /\ bootLog = <<>>

NextBoot ==
    \/ BootStart
    \/ \E o \in ConnectionOutcomes : BootCheckConnection(o)
    \/ \E l \in {"found", "failed", "missing"}, c \in CreationOutcomes, f \in InsertFailures :
          BootAuth(l, c, f)
    \/ \E l \in {"found", "failed", "missing"}, c \in CreationOutcomes, f \in InsertFailures :
          BootRoles(l, c, f)
    \/ \E l \in {"found", "failed", "missing"}, c \in CreationOutcomes : BootRelation(l, c)
    \/ \E l \in {"found", "failed", "missing"}, c \in CreationOutcomes : BootWebhook(l, c)
    \/ \E l \in {"found", "failed", "missing"}, c \in CreationOutcomes : BootWebhookLog(l, c)
    \/ BootFinish

SpecBoot == InitBoot /\ [][NextBoot]_vars

-----------------------------------------------------------------------------
(* Properties of the filter translator *)

SupportedOperators ==
    {"equals", "not_equals", "gt", "gte", "lt", "lte", "like", "not_like", "search"}

OperatorSymbol(o) ==
    CASE o = "equals" -> "="
      [] o = "not_equals" -> "!="
      [] o = "gt" -> ">"
      [] o = "gte" -> ">="
      [] o = "lt" -> "<"
      [] o = "lte" -> "<="

\* the expression a predicate stands for, with the given text as its value
Render(column, operator, text) ==
    CASE operator \in {"like", "search"} -> "SEARCH(\"" \o text \o "\",{" \o column \o "})"
      [] operator = "not_like" -> "NOT(SEARCH(\"" \o text \o "\",{" \o column \o "}))"
      [] operator \in {"in", "not_in", "null", "not_null"} -> ""
      [] OTHER -> "{" \o column \o "}" \o OperatorSymbol(operator) \o "\"" \o text \o "\""

IsCheckboxFalse(w) ==
    /\ \E i \in 1..Len(OrdersColumns) :
          OrdersColumns[i].field = w.column /\ OrdersColumns[i].type = "BOOLEAN"
    /\ w.value.type = "boolean"
    /\ w.value.text = "false"

Expression(w) == Render(w.column, w.operator, IF IsCheckboxFalse(w) THEN "" ELSE w.value.text)

RECURSIVE JoinComma(_)
JoinComma(terms) ==
    IF Len(terms) = 0 THEN ""
    ELSE IF Len(terms) = 1 THEN terms[1]
    ELSE terms[1] \o "," \o JoinComma(Tail(terms))

Expressions(w) == [i \in 1..Len(w) |-> Expression(w[i])]

AllSupported(w) == \A i \in 1..Len(w) : w[i].operator \in SupportedOperators

StartsWithAnd(s) == Len(s) >= 4 /\ SubSeq(s, 1, 4) = "AND("

RemoveAt(w, i) == SubSeq(w, 1, i - 1) \o SubSeq(w, i + 1, Len(w))

\* C6 as claimed: a list of one predicate yields its expression unwrapped, and every
\* list of two or more yields AND(expr1,expr2,...) with one term per predicate.
C6_OneTermPerPredicate ==
    \A k \in 1..Len(wtfOut) :
        /\ Len(wtfInput) = 1 =>
              wtfOut[k] = Expression(wtfInput[1]) /\ ~StartsWithAnd(wtfOut[k])
        /\ Len(wtfInput) >= 2 =>
              /\ \A i \in 1..Len(wtfInput) : Expression(wtfInput[i]) # ""
              /\ wtfOut[k] = "AND(" \o JoinComma(Expressions(wtfInput)) \o ")"

\* C6 amended: a list of one predicate yields its expression with no AND( wrapper
\* (nothing when its operator is unsupported), and a list of two or more predicates
\* that all have supported operators yields AND(expr1,expr2,...): one term per
\* predicate, a single comma between consecutive terms and none after the last.
C6_WrapperAndSeparators ==
    \A k \in 1..Len(wtfOut) :
        /\ Len(wtfInput) = 1 =>
              wtfOut[k] = Expression(wtfInput[1]) /\ ~StartsWithAnd(wtfOut[k])
        /\ (Len(wtfInput) >= 2 /\ AllSupported(wtfInput)) =>
              wtfOut[k] = "AND(" \o JoinComma(Expressions(wtfInput)) \o ")"

C6_Witness ==
    /\ Len(wtfInput) = 2
    /\ AllSupported(wtfInput)
    /\ Len(wtfOut) >= 1
    /\ wtfOut[1] = "AND({name}>=\"x\",NOT(SEARCH(\"\",{active})))"

C8_SkippedIsAsRemoved ==
    \A k \in 1..Len(wtfOut) :
        \A i \in 1..Len(wtfInput) :
            wtfInput[i].operator \notin SupportedOperators =>
                wtfOut[k] = whereToFilter(RemoveAt(wtfInput, i), OrdersSchema)

\* C9 as claimed: the call leaves the predicate list as it was, and a second call
\* with the same list returns the same expression.
C9_PureAndDeterministic ==
    /\ Len(wtfOut) >= 1 => wtfWhere = wtfInput
    /\ Len(wtfOut) = 2 => wtfOut[1] = wtfOut[2]

-----------------------------------------------------------------------------
(* Properties of the find operations *)

OrdersFields == {"name", "active", "CustomerId", "ReferrerId"}

IsPrimaryKeyEquality(w) ==
    Len(w) = 1 /\ w[1].column = "id" /\ w[1].operator = "equals"

HasPrimaryKeyPredicate(w) == \E i \in 1..Len(w) : w[i].column = "id"

ListRequests(l) == {k \in 1..Len(l) : l[k].path = "listRecords"}
PointRequests(l) == {k \in 1..Len(l) : l[k].method = "GET" /\ l[k].path = "record"}

\* the records at positions [o, o + l) of the result set, with the fields asked for
SliceOfResultSet(view, o, l, fs) ==
    LET n == IF o >= Len(view) THEN 0 ELSE Min(l, Len(view) - o)
        keys == IF Len(fs) = 0 THEN OrdersFields ELSE Range(fs)
    IN [i \in 1..n |->
          Defined([k \in {"id"} \cup keys |->
                      IF k = "id" THEN "rec" \o ToString(view[o + i])
                      ELSE k \o ":" \o ToString(view[o + i])])]

FindManyListed ==
    /\ op = "findMany" /\ pc = "done"
    /\ ~(Len(call.where) = 1 /\ call.where[1].column = "id")

\* C1 as claimed, in the instance it names: on a result set that holds the records
\* asked for, findMany(offset = 150, limit = 20) returns the records at positions
\* [150, 170), which is findMany(offset = 0, limit = 170) sliced [150:170].
C1_DataIsSliceAtOffset ==
    (FindManyListed /\ call.offset = 150 /\ call.limit = 20 /\ Len(table) >= 170) =>
        /\ result.status = "ok"
        /\ result.many.data = SliceOfResultSet(table, 150, 20, call.fields)

\* C2 as claimed: the total findTotalRecords computes, and findMany reports, is the
\* number of records of the result set.
C2_TotalIsExactCount ==
    /\ (op = "findMany" /\ pc \in {"fm_advance", "fm_position", "fm_fetch"}) =>
          total = Len(table)
    /\ (FindManyListed /\ result.status = "ok") => result.many.total = Len(table)

\* the record findOne answers with for a usable primary-key value: the record of
\* that id, cut down to the primary key and the requested fields
PointAnswer(view, w, fs) ==
    LET id == w[1].value.text
        n == CHOOSE m \in Range(view) : "rec" \o ToString(m) = id
        keys == IF Len(fs) = 0 THEN OrdersFields ELSE Range(fs)
    IN Defined([k \in {"id"} \cup keys |-> IF k = "id" THEN id ELSE k \o ":" \o ToString(n)])

RecordExists(view, id) == \E m \in Range(view) : "rec" \o ToString(m) = id

\* C3: findMany called with one equals predicate on the primary key returns
\* total = 1 and one data element, the record findOne returns for the same
\* predicate and fields; it fails exactly when findOne fails.
C3_PrimaryKeyFindManyIsFindOne ==
    (op \in {"findMany", "findOne"} /\ pc = "done" /\ IsPrimaryKeyEquality(call.where)) =>
        IF RecordExists(table, call.where[1].value.text)
        THEN /\ result.status = "ok"
             /\ op = "findOne" =>
                   result.kind = "one"
                   /\ result.one = PointAnswer(table, call.where, call.fields)
             /\ op = "findMany" =>
                   /\ result.kind = "many"
                   /\ result.many.total = 1
                   /\ Len(result.many.data) = 1
                   /\ result.many.data[1] = PointAnswer(table, call.where, call.fields)
        ELSE result.status = "error"

C3_Witness ==
    /\ op = "findMany" /\ pc = "done"
    /\ call.where = <<Pred("id", "equals", Str("rec1"))>>
    /\ call.fields = <<"name">>
    /\ result.status = "ok"
    /\ result.many.total = 1
    /\ result.many.data = <<Defined([id |-> "rec1", name |-> "name:1"])>>

\* C4 as claimed: findMany answers from the single-record path, with no list
\* request, exactly when its single predicate is an equality on the primary key.
C4_ShortCircuitIffEquality ==
    (op = "findMany" /\ pc = "done" /\ result.status = "ok") =>
        (IsPrimaryKeyEquality(call.where) <=> ListRequests(log) = {})

\* what findOne does without a primary-key predicate: no point fetch, findMany
\* with limit 1 and offset 0, and its first element or undefined as the answer
DelegatesToFindMany ==
    /\ PointRequests(log) = {}
    /\ Len(stack) >= 2 =>
          stack[2].fn = "findMany" /\ stack[2].limit = 1 /\ stack[2].offset = 0
    /\ pc = "done" =>
          /\ result.status = "ok"
          /\ result.kind = "one"
          /\ log[Len(log)].pageSize = 1
          /\ IF Len(table) = 0
             THEN ~result.one.defined
             ELSE <<result.one>> = SliceOfResultSet(table, 0, 1, call.fields)

\* what findOne does on the primary-key value id: the point fetch alone, which
\* fails when the record is absent
FetchesPoint(id) ==
    /\ ListRequests(log) = {}
    /\ Len(stack) <= 1
    /\ pc = "done" =>
          /\ PointRequests(log) = {1}
          /\ log[1].id = id
          /\ IF RecordExists(table, id)
             THEN result.status = "ok" /\ result.one.defined
             ELSE result.status = "error"

FirstPrimaryKeyValue(w) ==
    w[CHOOSE i \in 1..Len(w) :
          w[i].column = "id" /\ \A k \in 1..(i - 1) : w[k].column # "id"].value

-----------------------------------------------------------------------------
(* Properties of createOne and updateOne *)

\* C11 as claimed: no partial-update request carries the primary-key field,
\* whatever value the caller gave it, the empty string and zero included.
C11_UpdateNeverSendsPrimaryKey ==
    \A i \in 1..Len(log) :
        log[i].method = "PATCH" => log[i].data[OrdersSchema.primary_key] = Undefined

LinkColumns == {"CustomerId", "ReferrerId"}

\* the linked ids the input gives: every id of every non-empty link value
LinkedIds(d) ==
    UNION {IF LinkTruthy(d[f]) THEN Range(d[f].ids) ELSE {} : f \in LinkColumns}

Resolves(id) == \E i \in 1..Len(CustomersTable) : "cus" \o ToString(CustomersTable[i]) = id

WriteRequests(l) ==
    {k \in 1..Len(l) : l[k].method \in {"POST", "PATCH"} /\ l[k].path \in {"records", "record"}}

\* C5: a create or update request is sent only after every linked id of every
\* foreign-key column was fetched and found; when a linked id does not resolve the
\* operation ends in an error and no write request was sent.
C5_NoWriteBeforeLinksResolve ==
    (op \in {"createOne", "updateOne"}) =>
        /\ \A k \in WriteRequests(log) :
              \A id \in LinkedIds(call.data) :
                  /\ Resolves(id)
                  /\ \E j \in 1..(k - 1) :
                        /\ log[j].method = "GET" /\ log[j].path = "record"
                        /\ log[j].table = "Customers"
                        /\ log[j].id = id
        /\ (pc = "done" /\ \E id \in LinkedIds(call.data) : ~Resolves(id)) =>
              /\ result.status = "error"
              /\ WriteRequests(log) = {}

C5_Witness ==
    /\ op = "createOne" /\ pc = "done"
    /\ call.data.CustomerId = Array(<<"cus1", "cus9">>)
    /\ result.status = "error"
    /\ Len(log) = 4
    /\ log[2].id = "cus1" /\ log[4].id = "cus9"
    /\ WriteRequests(log) = {}

-----------------------------------------------------------------------------
(* Properties of deleteOne *)

Digits == {"0", "1", "2", "3", "4", "5", "6", "7", "8", "9"}

\* s has the shape YYYY-MM-DD HH:mm:ss
IsTimestamp(s) ==
    /\ Len(s) = 19
    /\ \A i \in 1..19 :
          SubSeq(s, i, i) \in (CASE i \in {5, 8} -> {"-"}
                                [] i = 11 -> {" "}
                                [] i \in {14, 17} -> {":"}
                                [] OTHER -> Digits)

\* the record number that id names, if the backend holds or held it
NumberOf(id, ns) == {n \in ns : RecId("Orders", n) = id}

FindsByPrimaryKey(id) ==
    /\ op = "findOne" /\ pc = "done"
    /\ call.where = <<Pred("id", "equals", Str(id))>>

\* C12: a deleteOne with a soft-delete column sends no DELETE request; when it
\* succeeds it has sent one PATCH of the record whose only field is that column, set
\* to a YYYY-MM-DD HH:mm:ss timestamp, it answers {deleted: 1}, the backend still
\* holds the record, and a later findOne on its primary key returns it.
C12_SoftDeleteIsOneUpdate ==
    /\ (op = "deleteOne" /\ call.softDelete # "") =>
          /\ \A i \in 1..Len(log) : log[i].method # "DELETE"
          /\ (pc = "done" /\ result.status = "ok") =>
                /\ Len(log) = 1
                /\ log[1].method = "PATCH" /\ log[1].id = call.id
                /\ \E ts \in {log[1].data[call.softDelete]} :
                      /\ ts.type = "string" /\ IsTimestamp(ts.text)
                      /\ log[1].data = [NoData EXCEPT ![call.softDelete] = ts]
                /\ result.value = DeleteResponse(1)
                /\ NumberOf(call.id, stamped) # {}
                /\ RecordExists(table, call.id)
    /\ \A id \in IdChoices :
          (FindsByPrimaryKey(id) /\ NumberOf(id, stamped) # {}) =>
              /\ result.status = "ok"
              /\ result.one.defined
              /\ result.one.rec.id = id

C12_Witness ==
    /\ FindsByPrimaryKey("rec1")
    /\ stamped = {1}
    /\ result.status = "ok"
    /\ result.one.rec.id = "rec1"

\* C13 as claimed: a hard delete completes without throwing, of an id the backend
\* does not hold as well, and every deleteOne that returns answers {deleted: 0} or
\* {deleted: 1}.
C13_DeleteAnswersZeroOrOne ==
    (op = "deleteOne" /\ pc = "done") =>
        /\ call.softDelete = "" => result.status = "ok"
        /\ result.status = "ok" => result.value \in {DeleteResponse(0), DeleteResponse(1)}

\* C14 as claimed: a hard delete of a record the backend holds answers {deleted: 1},
\* and a later findOne on that record's primary key returns without throwing and
\* yields no record.
C14_FindAfterHardDeleteIsEmpty ==
    /\ (op = "deleteOne" /\ call.softDelete = "" /\ pc = "done" /\ result.status = "ok") =>
          /\ result.value = DeleteResponse(1)
          /\ ~RecordExists(table, call.id)
    /\ \A id \in IdChoices :
          (FindsByPrimaryKey(id) /\ NumberOf(id, removed) # {}) =>
              /\ result.status = "ok"
              /\ ~result.one.defined

-----------------------------------------------------------------------------
(* Properties of the field allowlist *)

\* C19: a findOne answered by the point fetch returns a record that has the primary
\* key; with a non-empty requested-fields list it has no key outside that list, and
\* with an empty list it has every field the backend returned.
C19_PointFetchKeepsRequestedFields ==
    (op = "findOne" /\ pc = "done" /\ result.status = "ok" /\ PointRequests(log) # {}) =>
        /\ result.one.defined
        /\ OrdersSchema.primary_key \in DOMAIN result.one.rec
        /\ IF Len(call.fields) > 0
           THEN DOMAIN result.one.rec \subseteq {OrdersSchema.primary_key} \cup Range(call.fields)
           ELSE DOMAIN result.one.rec = {OrdersSchema.primary_key} \cup OrdersFields

C19_Witness ==
    /\ op = "findOne" /\ pc = "done"
    /\ call.fields = <<"name">>
    /\ PointRequests(log) = {1}
    /\ result.status = "ok"
    /\ result.one = Defined([id |-> "rec1", name |-> "name:1"])

-----------------------------------------------------------------------------
(* Properties of createTable, truncate, getSchema and checkConnection *)

CreateTableRequests(l) == {k \in 1..Len(l) : l[k].method = "POST" /\ l[k].path = "tables"}

\* C15: createTable sends the create-table request only for a table the backend's
\* list lacks; a call that finds the table listed sends nothing more and returns
\* true; and over any sequence of calls the backend accepts at most one
\* create-table request per table.
C15_CreateTableIsIdempotent ==
    /\ \A t \in TableNames : tableCreates[t] <= 1
    /\ op = "createTable" =>
          /\ pc = "ct_create" => ~(schemaArg.table \in NamesOf(base))
          /\ \A k \in CreateTableRequests(log) : k = 2 /\ log[k].table = schemaArg.table
          /\ (pc = "done" /\ Len(log) = 1 /\ failed = 0) =>
                /\ schemaArg.table \in NamesOf(base)
                /\ result.status = "ok"
                /\ result.value = Bool(TRUE)

C15_Witness ==
    /\ op = "createTable" /\ pc = "done"
    /\ schemaArg.table = "Products"
    /\ tableCreates["Products"] = 1
    /\ CreateTableRequests(log) = {}
    /\ result.value = Bool(TRUE)

\* C16: createTable and truncate never throw, whichever of their backend requests
\* fails and however it fails: createTable then returns false, and truncate returns
\* undefined.
C16_NoErrorLeavesCreateTableOrTruncate ==
    (op \in {"createTable", "truncate"} /\ pc = "done") =>
        /\ result.status = "ok"
        /\ op = "createTable" =>
              /\ result.value \in {Bool(TRUE), Bool(FALSE)}
              /\ failed > 0 => result.value = Bool(FALSE)
        /\ op = "truncate" => result.value = Undefined

C16_Witness ==
    /\ op = "truncate" /\ pc = "done"
    /\ failed > 0
    /\ log[Len(log)].method = "DELETE"
    /\ page # <<>>
    /\ result.status = "ok"

FieldNames(schema) == [i \in 1..Len(schema.columns) |-> schema.columns[i].field]

\* the schema as the caller built it
CallerSchema(t) == IF t = "Products" THEN ProductsSchema ELSE OrdersSchema

\* C17 as claimed: once createTable has returned, the schema object passed in has
\* the column names it had before the call, and its primary_key names a column
\* flagged as the primary key.
C17_SchemaIsAsPassed ==
    (op = "createTable" /\ pc = "done") =>
        /\ FieldNames(schemaArg) = FieldNames(CallerSchema(schemaArg.table))
        /\ \E i \in 1..Len(schemaArg.columns) :
              /\ schemaArg.columns[i].field = schemaArg.primary_key
              /\ schemaArg.columns[i].primary_key

\* the reverse relations owed to target: one per link field of another table whose
\* linked table is target
LinksBackTo(tables, target) ==
    UNION {{[table |-> target, column |-> f.name, org_table |-> t.name, org_column |-> "id"] :
               f \in {g \in Range(t.fields) :
                         /\ g.type = MULTIPLE_RECORD_LINKS
                         /\ g.linkedTableId = TableNamed(tables, target).id}} :
           t \in {u \in Range(tables) : u.name # target}}

\* the reverse relations of a schema that stem from other tables
ReverseFromOthers(schema) ==
    {r \in Range(schema.relations) : r.org_column = "id" /\ r.org_table # schema.table}

\* C18 as claimed: the relations getSchema returns for a table hold a reverse
\* relation for exactly the link fields of other tables that link to that table.
C18_ReverseRelationsLinkToTarget ==
    (op = "getSchema" /\ pc = "done" /\ result.status = "ok") =>
        ReverseFromOthers(schemaOut) = LinksBackTo(base, call.table)

\* C20 as claimed: when the request of the connectivity probe fails, with an HTTP
\* error response or with no response, checkConnection returns false.
C20_FailedProbeIsReported ==
    (op = "checkConnection" /\ pc = "done" /\ failed > 0) =>
        /\ result.status = "ok"
        /\ result.value = Bool(FALSE)

-----------------------------------------------------------------------------
(* Properties of the paging loops and of the delegation between findOne and findMany *)

\* the list requests of findTotalRecords (no fields), of the cursor-moving loop and
\* the positioning request of findMany (fields, no maxRecords), and of its data fetch
CountRequests(l) ==
    {k \in 1..Len(l) : l[k].path = "listRecords" /\ l[k].fields = <<>> /\ l[k].maxRecords = 0}
AdvanceRequests(l) ==
    {k \in 1..Len(l) : l[k].path = "listRecords" /\ l[k].fields # <<>> /\ l[k].maxRecords = 0}
FetchRequests(l) == {k \in 1..Len(l) : l[k].path = "listRecords" /\ l[k].maxRecords > 0}

\* the continuation cursor the backend returns for a list request
CursorAfter(view, req) == ListRecords(view, req.pageSize, req.offset).offset

\* C21 as claimed: for an offset above 100 the cursor-moving requests are pages of
\* 100 records, the first without a cursor and each next one with the cursor the
\* previous one returned; the data fetch comes once they have covered the offset,
\* and carries the cursor the last of them returned.
C21_FetchUsesAdvancedCursor ==
    (op = "findMany" /\ call.offset > PageSize /\ ~ShortCircuits(call.where, OrdersSchema)) =>
        /\ \A k \in AdvanceRequests(log) :
              /\ log[k].pageSize = PageSize
              /\ log[k].offset = IF k - 1 \in AdvanceRequests(log)
                                 THEN CursorAfter(table, log[k - 1])
                                 ELSE NoCursor
        /\ \A k \in FetchRequests(log) :
              /\ k - 1 \in AdvanceRequests(log)
              /\ Cardinality(AdvanceRequests(log)) * PageSize >= call.offset
              /\ log[k].offset = CursorAfter(table, log[k - 1])

\* C22 as claimed: findTotalRecords never asks again for a page it has counted: no
\* two of its list requests carry the same cursor, and it sends no more requests
\* than the result set has pages, plus one.
C22_CountNeverRepeatsAPage ==
    /\ \A i, j \in CountRequests(log) : i < j => log[i].offset # log[j].offset
    /\ Cardinality(CountRequests(log)) <= (Len(table) \div PageSize) + 1

\* C23 as claimed: the delegation between findOne and findMany never cycles: no
\* operation is entered again while a call of it is waiting on the stack.
C23_DelegationNeverCycles ==
    \A i, j \in 1..Len(stack) : i < j => stack[i].fn # stack[j].fn

\* C25 as claimed: with 0 < offset <= 100 findMany returns no record located
\* before the offset, and nothing at all when the offset is at or past the end of
\* the result set.
C25_SmallOffsetNeverGoesBack ==
    (/\ FindManyListed
     /\ result.status = "ok"
     /\ call.offset > 0
     /\ call.offset <= PageSize) =>
        /\ \A i \in 1..Len(result.many.data) :
              \A k \in 1..Min(call.offset, Len(table)) :
                  result.many.data[i].rec.id # RecId("Orders", table[k])
        /\ call.offset >= Len(table) => result.many.data = <<>>

DeleteRequests(l) == {k \in 1..Len(l) : l[k].method = "DELETE"}

\* C24 as claimed: truncate does not delete a record a second time after its DELETE
\* has failed, and when every request succeeds it ends with the table empty.
C24_TruncateNeverRetries ==
    op = "truncate" =>
        /\ \A i, j \in DeleteRequests(log) : i < j => log[i].id # log[j].id
        /\ (pc = "done" /\ failed = 0 /\ call.table = "Orders") => table = <<>>

-----------------------------------------------------------------------------
(* Properties of the webhook helper *)

NoUser(w) == w.user = ""
PublishCompleted == harg.op = "publish" /\ hpc = "done"
\* authentication lets the deliveries of this publish through (lines 88-98)
Authorised == harg.user = "" \/ harg.auth

\* the cached lists of table t hold what the webhook table holds now
CacheAgreesWithTable(t) ==
    \A e \in cache :
        /\ e.key = AllKey(t) => SelectSeq(e.data, NoUser) = FindWebhooks(hooks, t, "")
        /\ \A u \in HookUsers \ {""} :
               e.key = UserKey(t, u) => e.data = FindWebhooks(hooks, t, u)

\* C26: a publish for a table and a user delivers to the table's webhooks with no
\* user and to the table's webhooks of that user, whether the two lists came from
\* the cache or from the database.
C26_DeliveriesIndependentOfCache ==
    (PublishCompleted /\ hresult = "returned" /\ Authorised
       /\ CacheAgreesWithTable(harg.table))
    => {a.webhook_id : a \in Range(attempts)} =
         {w.id : w \in {x \in hooks : x.table = harg.table /\ x.user \in {"", harg.user}}}

\* C27: when addWebhook, editWebhook or deleteWebhook has completed for a table, no
\* cached list of that table is left that differs from the webhook table, so the
\* next publish uses the updated webhooks.
C27_ChangeLeavesNoStaleList ==
    (harg.op \in {"add", "edit", "delete"} /\ hpc = "done" /\ harg.table \in HookTables)
    => CacheAgreesWithTable(harg.table)

\* C28: every delivery a publish attempts has exactly one webhook-log record
\* (delivered exactly when the delivery succeeded), and a failed delivery does not
\* stop the deliveries to the remaining webhooks of the list.
C28_EveryAttemptIsLoggedAndLoopGoesOn ==
    PublishCompleted =>
        /\ Len(hookLog) = Len(attempts)
        /\ \A i \in 1..Len(hookLog) :
               /\ hookLog[i].webhook_id = attempts[i].webhook_id
               /\ hookLog[i].delivered = (attempts[i].outcome = "ok")
        /\ Authorised => Len(attempts) = Len(targets)

-----------------------------------------------------------------------------
(* Properties of the application bootstrap *)

\* C29: when a bootstrap run completes with webhooks enabled and no table creation
\* rejected, the backend has the auth, roles, relation, webhook and webhook-log
\* tables.
C29_BootstrapProvidesEverySystemTable ==
    (bpc = "end" /\ bootConfig.webhooks
       /\ \A e \in Range(bootLog) : e.create # "rejected")
    => sysTables = SystemTables

\* C30: a bootstrap run sends a table creation and inserts seed rows only for a
\* table the backend did not have, so a run on a provisioned backend creates no
\* table and inserts no row.
C30_SeedsOnlyMissingTables ==
    \A e \in Range(bootLog) : (e.create # "none" \/ e.rows > 0) => ~e.existed

====
